---- MODULE Spec2Model ----
(***************************************************************************)
(* Wallet transfer service and interest service of the Sycamore backend.   *)
(*                                                                         *)
(* The relational store (wallets, transaction_logs, ledger_entries) and    *)
(* the Redis cache (idempotency results, pair locks) are the shared state. *)
(* Every call of TransferService.transfer is a process whose steps are the *)
(* awaits of the method; the statements of its SERIALIZABLE transaction    *)
(* see and block each other as PostgreSQL makes them (row locks, unique    *)
(* index waits, serialization failures, deadlock aborts). A call of        *)
(* InterestService.accrueInterestForWallet or applyAccruedInterest is a    *)
(* job with steps of the same kind.                                        *)
(*                                                                         *)
(* Workloads: "pair" (transfer calls in flight together on one wallet     *)
(* pair), "retry" (transfer calls made one after the other), "outage"     *)
(* (the same calls while Redis is unreachable), "interest" (two transfers *)
(* that share their source wallet, with interest jobs), "jobs" (interest  *)
(* jobs in flight together, without transfers), "calc" (the interest      *)
(* calculations that read no store, over dates and process time zones),   *)
(* "cycle" (transfers around three wallets), "conflict" (a call answered  *)
(* CONCURRENT_REQUEST and its retry), "crash" (calls whose process may    *)
(* die while holding the lock), "edge" (missing or inactive wallets,      *)
(* amounts of five fractional digits) and "dormant" (interest jobs on an  *)
(* empty, an inactive and a missing wallet).                               *)
(*                                                                         *)
(* Money: a stored DECIMAL(20,4) value is an integer count of 0.0001; a    *)
(* request amount is an integer count of 0.00001, so that an amount can    *)
(* carry a fifth fractional digit that toFixed(4) has to round.            *)
(***************************************************************************)
EXTENDS Integers, FiniteSets, Sequences, TLC

VARIABLES
    scenario,     \* which workload this behaviour draws its requests from
    wallets,      \* wallets table: id -> [balance, isActive]
    txLogs,       \* transaction_logs table (committed rows)
    ledger,       \* ledger_entries table (committed rows)
    cache,        \* Redis idempotency:<key> entries: key -> {} or {json}
    lock,         \* Redis lock:transfer:<a>:<b> entries: pair -> lock value
    rowLock,      \* FOR UPDATE row locks on wallets: id -> holding transaction
    pc,           \* position of every transfer call
    req,          \* the TransferRequest of every call
    transactionLog, \* the call's local `transactionLog` (its id, or NoId)
    stale,        \* wallets another transaction committed after the call's snapshot
    errorMessage, \* the message of the error caught by the call
    result,       \* the TransferResult returned by the call
    doneBefore,   \* calls that had returned when this call started
    missedWith,   \* calls not yet returned when this call's two lookups missed
    redisFailed,  \* some Redis command has thrown (and was caught) so far
    accruals,     \* interest_accruals table (committed rows)
    job           \* every InterestService call: position, arguments, locals

vars == <<scenario, wallets, txLogs, ledger, cache, lock, rowLock, pc, req,
          transactionLog, stale, errorMessage, result, doneBefore, missedWith,
          redisFailed, accruals, job>>

----------------------------------------------------------------------------
(* Bounds *)

\* transfer calls in flight together in the scenario "pair"
ConcurrentCalls == 2

\* transfer calls made one after the other in the scenario "retry"
SequentialCalls == 3

\* transfer calls in flight together in the scenario "cycle"
CycleCalls == 3

\* transfer calls of the scenario "conflict": two in flight together, the
\* others retries of a call that was answered CONCURRENT_REQUEST
ConflictCalls == 3

\* transfer calls of the scenario "crash", each made after the one before has
\* returned or its process has died
CrashCalls == 2

\* transfer calls made one after the other in the scenario "edge"
EdgeCalls == 2

Largest(S) == CHOOSE n \in S : \A m \in S : m <= n

Calls == 1..Largest({ConcurrentCalls, SequentialCalls, CycleCalls,
                     ConflictCalls, CrashCalls, EdgeCalls})

\* the calls a behaviour of the scenario makes
CallsOf(s) ==
    CASE s = "pair" -> 1..ConcurrentCalls
      [] s = "retry" -> 1..SequentialCalls
      [] s = "outage" -> 1..SequentialCalls
      [] s = "interest" -> {1, 2}
      [] s = "cycle" -> 1..CycleCalls
      [] s = "edge" -> 1..EdgeCalls
      [] s = "crash" -> 1..CrashCalls
      [] s = "conflict" -> 1..ConflictCalls
      [] OTHER -> {}

\* InterestService calls made one after the other, while the transfers run,
\* in the scenario "interest"
InterestJobs == 1

\* InterestService calls in flight together in the scenario "jobs"
ConcurrentJobs == 2

\* InterestService calls in flight together in the scenario "dormant"
DormantJobs == 2

Jobs == 1..Largest({InterestJobs, ConcurrentJobs, DormantJobs})

JobsOf(s) ==
    CASE s = "interest" -> 1..InterestJobs
      [] s = "jobs" -> 1..ConcurrentJobs
      [] s = "dormant" -> 1..DormantJobs
      [] s = "calc" -> {1}
      [] OTHER -> {}

\* the longest period of calculateInterestForDays in the scenario "calc"
MaxDays == 10

Wallets == {"A", "B", "C"}

Keys == {"k1", "k2", "k3"}

NoId == 0
NoBalance == -1
NoLock == 0

----------------------------------------------------------------------------
(* FinancialMath (Decimal.js, ROUND_HALF_UP) *)

\* new Decimal(<stored 4-digit value>) in units of 0.00001
decimal(stored) == stored * 10

\* faulty variant: the fifth fractional digit is cut off
toFixedTruncating(x) == IF x >= 0 THEN x \div 10 ELSE -((-x) \div 10)

\* Decimal.toFixed(4): round half away from zero to a count of 0.0001
toFixed(x) == IF x >= 0 THEN (x + 5) \div 10 ELSE -((5 - x) \div 10)

add(a, b) == a + b
subtract(a, b) == a - b
\* faulty variants of the comparison: one that is not strict, one with its
\* operands swapped
isGreaterThanNotStrict(a, b) == a >= b
isGreaterThanSwapped(a, b) == a < b

isGreaterThan(a, b) == a > b
isZero(a) == a = 0
isNegative(a) == a < 0

\* faulty variant: every fourth year is a leap year
isLeapYearJulian(year) == year % 4 = 0

isLeapYear(year) == (year % 4 = 0 /\ year % 100 # 0) \/ year % 400 = 0

getDaysInYear(year) == IF isLeapYear(year) THEN 366 ELSE 365

\* config.annualInterestRate = 0.275, in thousandths
AnnualRatePerMille == 275

\* a * b \div c for a, b >= 0 and c > 0, computed without a product larger
\* than b * c
MulDiv(a, b, c) == b * (a \div c) + (b * (a % c)) \div c

\* principal.times(annualRate.dividedBy(daysInYear)) in units of 0.00001, the
\* digits after the fifth cut off: toFixed(4), rounding half up a value that
\* is not negative, reads no digit after the fifth. (The 20-digit Decimal
\* arithmetic gives the same four digits for the principals of the model.)
calculateDailyInterest(principal, daysInYear) ==
    MulDiv(principal, AnnualRatePerMille, 1000 * daysInYear)

\* calculateDailyInterest(new Decimal(<stored 4-digit value>), daysInYear):
\* the same quotient, the factor 10 of the conversion cancelled
calculateDailyInterestOfStored(stored, daysInYear) ==
    MulDiv(stored, AnnualRatePerMille, 100 * daysInYear)

----------------------------------------------------------------------------
(* TransferResult and its JSON form in the cache *)

TransferResult(success, transactionId, status, error, fromBalance, toBalance) ==
    [success |-> success, transactionId |-> transactionId, status |-> status,
     error |-> error, fromBalance |-> fromBalance, toBalance |-> toBalance,
     isIdempotent |-> FALSE]

NoResult == TransferResult(FALSE, NoId, "NONE", "", NoBalance, NoBalance)

\* the value a field has when the object does not carry it
Undefined(f) ==
    CASE f = "transactionId" -> NoId
      [] f = "fromBalance" -> NoBalance
      [] f = "toBalance" -> NoBalance
      [] f = "error" -> ""
      [] f = "isIdempotent" -> FALSE
      [] OTHER -> FALSE

\* JSON.stringify(result): undefined properties are left out
JsonStringify(r) ==
    LET present == {f \in DOMAIN r :
                      f \in {"success", "status"} \/ r[f] # Undefined(f)}
    IN  [f \in present |-> r[f]]

\* JSON.parse(cached) as TransferResult: a property left out reads undefined
JsonParse(s) ==
    [f \in DOMAIN NoResult |-> IF f \in DOMAIN s THEN s[f] ELSE Undefined(f)]

----------------------------------------------------------------------------
(* Requests *)

NoError == "none"

\* String.prototype.trim on the keys of the model: the keys made of spaces
\* only become empty, the other keys have no surrounding space
trim(s) == IF s \in {" ", "  "} THEN "" ELSE s

\* an amount that is undefined or the empty string (`!amount`); the amounts
\* of the model are the decimal strings the controller passes, counted in
\* 0.00001
NoAmount == -1

\* faulty variant: validation without the check of the amount's sign
validateTransferRequestAnyAmount(request) ==
    IF request.idempotencyKey = "" \/ trim(request.idempotencyKey) = ""
    THEN "Idempotency key is required"
    ELSE IF request.fromWalletId = "" THEN "Source wallet ID is required"
    ELSE IF request.toWalletId = "" THEN "Destination wallet ID is required"
    ELSE IF request.fromWalletId = request.toWalletId
         THEN "Cannot transfer to the same wallet"
    ELSE IF request.amount = NoAmount THEN "Amount is required"
    ELSE NoError

\* TransferService.validateTransferRequest
validateTransferRequest(request) ==
    IF request.idempotencyKey = "" \/ trim(request.idempotencyKey) = ""
    THEN "Idempotency key is required"
    ELSE IF request.fromWalletId = "" THEN "Source wallet ID is required"
    ELSE IF request.toWalletId = "" THEN "Destination wallet ID is required"
    ELSE IF request.fromWalletId = request.toWalletId
         THEN "Cannot transfer to the same wallet"
    ELSE IF request.amount = NoAmount THEN "Amount is required"
    ELSE IF isNegative(request.amount) \/ isZero(request.amount)
         THEN "Amount must be positive"
    ELSE NoError

\* `transfer:${[fromWalletId, toWalletId].sort().join(':')}`
LockKey(request) == {request.fromWalletId, request.toWalletId}

\* a well-formed wallet id that no row of the wallets table has
MissingWallet == "Z"

LockKeys ==
    {{a, b} : a \in Wallets \cup {MissingWallet},
              b \in Wallets \cup {MissingWallet}}
    \ {{w} : w \in Wallets \cup {MissingWallet}}

Request(k, f, t, a) ==
    [idempotencyKey |-> k, fromWalletId |-> f, toWalletId |-> t, amount |-> a]

NoRequest == Request("", "", "", 0)

\* requests that break one rule of the validation each
InvalidRequests ==
    {Request("", "A", "B", 20000), Request(" ", "A", "B", 20000),
     Request("k2", "", "B", 20000), Request("k2", "A", "", 20000),
     Request("k2", "A", "A", 20000), Request("k2", "A", "B", 0),
     Request("k2", "A", "B", -10000), Request("k2", "A", "B", NoAmount)}

\* the requests call p of a behaviour of the scenario may make; the first
\* call uses the first key. In the scenario "pair" the second call repeats
\* the first, reuses its key for the opposite direction, or uses another key
\* in either direction or makes an invalid request; a further call repeats
\* the first.
Requests(p) ==
    LET keys == IF p = 1 THEN {"k1"} ELSE {"k1", "k2"} IN
    CASE scenario = "pair" ->
            {Request("k1", "A", "B", 20000)}
            \cup IF p = 2 THEN {Request("k2", "A", "B", 20000),
                                Request("k1", "B", "A", 30000),
                                Request("k2", "B", "A", 30000)}
                               \cup InvalidRequests
                 ELSE {}
      [] scenario \in {"retry", "outage"} ->
            {Request(k, "A", "B", a) : k \in keys, a \in {20000, 30000}}
            \cup {Request(k, "B", "A", 10000) : k \in keys}
            \cup {Request("k2", "A", "C", 10000), Request("k2", "A", "A", 10000),
                  Request("k2", "A", "B", 0)}
      [] scenario = "interest" ->
            IF p = 1 THEN {Request("k1", "A", "B", 20000)}
            ELSE {Request("k2", "A", "C", 20000)}
      [] scenario = "conflict" ->
            CASE p = 1 -> {Request("k1", "A", "B", 20000)}
              [] p = 2 -> {Request("k1", "A", "B", 20000),
                           Request("k2", "A", "B", 10000),
                           Request("k2", "B", "A", 10000)}
              [] OTHER -> {req[p - 1]}
      [] scenario = "crash" ->
            IF p = 1 THEN {Request("k1", "A", "B", 10000)}
            ELSE {Request("k2", "A", "B", 10000),
                  Request("k2", "B", "A", 10000),
                  Request("k2", "A", "C", 10000)}
      [] scenario = "edge" ->
            LET k == CASE p = 1 -> "k1" [] p = 2 -> "k2" [] OTHER -> "k3" IN
            {Request(k, "A", "B", a) : a \in {4, 5, 10000, 10004, 10005}}
            \cup {Request(k, "A", MissingWallet, 10000),
                  Request(k, MissingWallet, "A", 10000),
                  Request(k, "A", "C", 10000),
                  Request(k, "C", "A", 10000)}
      [] scenario = "cycle" ->
            CASE p % 3 = 1 -> {Request("k1", "A", "B", 10000)}
              [] p % 3 = 2 -> {Request("k2", "B", "C", 10000)}
              [] OTHER -> {Request("k3", "C", "A", 10000)}
      [] OTHER -> {}

----------------------------------------------------------------------------
(* The store as the statements of a transaction see it *)

TransactionStatus == {"PENDING", "COMPLETED", "FAILED", "REVERSED"}

\* the call's transaction has taken its snapshot and is not yet finished
InTransaction(p) == pc[p] \in {"insert", "lockFrom", "lockTo", "execute"}

\* idempotency keys of rows the call's open transaction has inserted
UncommittedKeys(p) ==
    IF pc[p] \in {"lockFrom", "lockTo", "execute"}
    THEN {req[p].idempotencyKey} ELSE {}

\* TransactionLog.findOne({ where: { idempotencyKey } }) outside a transaction
FindByKey(k) == {l \in txLogs : l.idempotencyKey = k}

\* TransferService.getTransactionByIdempotencyKey: the committed rows the
\* lookup can return (the empty set stands for null)
getTransactionByIdempotencyKey(idempotencyKey) == FindByKey(idempotencyKey)

\* TransferService.getTransactionById: TransactionLog.findByPk on the
\* committed rows (the empty set stands for null)
getTransactionById(transactionId) == {l \in txLogs : l.id = transactionId}

\* faulty variant: transaction_logs without the unique index
UniqueViolationNoIndex(k) == FALSE

\* the unique index on transaction_logs.idempotency_key rejects the key
UniqueViolation(k) == FindByKey(k) # {}

\* faulty variant: the lookup leaves out isActive: true
ActiveWalletOrInactive(w) == w \in DOMAIN wallets

\* rows of the wallets table matching { id, isActive: true }
ActiveWallet(w) == w \in DOMAIN wallets /\ wallets[w].isActive

\* from_wallet_id and to_wallet_id of transaction_logs reference wallets(id):
\* the INSERT fails when a wallet id names no row
ForeignKeyViolation(request) ==
    \/ request.fromWalletId \notin DOMAIN wallets
    \/ request.toWalletId \notin DOMAIN wallets

ReleaseRowLocks(p) == [w \in DOMAIN rowLock |->
                         IF rowLock[w] = p THEN NoLock ELSE rowLock[w]]

\* a commit that wrote the wallets ws is a concurrent update for every
\* transaction whose snapshot is older
MarkStale(p, ws) == [q \in DOMAIN stale |->
                       IF q # p /\ InTransaction(q) THEN stale[q] \cup ws
                       ELSE stale[q]]

----------------------------------------------------------------------------
(* InterestService calls and what their open transactions hold *)

\* a Date: the day toISOString() prints and the year getFullYear() reads
Date(iso, year) == [iso |-> iso, year |-> year]

NoDate == Date("", 0)

\* the days of a month of the proleptic Gregorian calendar of ECMAScript
DaysInMonth(y, m) ==
    CASE m \in {4, 6, 9, 11} -> 30
      [] m = 2 -> IF (y % 4 = 0 /\ y % 100 # 0) \/ y % 400 = 0 THEN 29
                  ELSE 28
      [] OTHER -> 31

\* a calendar day <<year, month, day>> and the days next to it
NextDay(c) ==
    IF c[3] < DaysInMonth(c[1], c[2]) THEN <<c[1], c[2], c[3] + 1>>
    ELSE IF c[2] < 12 THEN <<c[1], c[2] + 1, 1>>
    ELSE <<c[1] + 1, 1, 1>>

PrevDay(c) ==
    IF c[3] > 1 THEN <<c[1], c[2], c[3] - 1>>
    ELSE IF c[2] > 1 THEN <<c[1], c[2] - 1, DaysInMonth(c[1], c[2] - 1)>>
    ELSE <<c[1] - 1, 12, 31>>

\* a JavaScript Date: a time value, held as its UTC day and minute of the day
Instant(utc, minute) == [utc |-> utc, minute |-> minute]

NoInstant == Instant(<<0, 0, 0>>, 0)

MinutesPerDay == 1440

\* the local day of a time value in a process whose time zone is tz minutes
\* east of UTC (the zone has no daylight saving transitions)
LocalDay(t, tz) ==
    IF t.minute + tz < 0 THEN PrevDay(t.utc)
    ELSE IF t.minute + tz >= MinutesPerDay THEN NextDay(t.utc)
    ELSE t.utc

\* Date.prototype.getFullYear(): the year of the local day
getFullYear(t, tz) == LocalDay(t, tz)[1]

Pad2(n) == IF n < 10 THEN "0" \o ToString(n) ELSE ToString(n)

\* date.toISOString().split('T')[0]: the UTC day
toISODate(t) ==
    ToString(t.utc[1]) \o "-" \o Pad2(t.utc[2]) \o "-" \o Pad2(t.utc[3])

\* currentDate.setDate(currentDate.getDate() + 1): the next local day at the
\* same local time, which is 24 hours later
setNextDate(t) == Instant(NextDay(t.utc), t.minute)

\* what calculateDailyInterest reads of a Date: toISOString and getFullYear
DateOf(t, tz) == Date(toISODate(t), getFullYear(t, tz))

\* `interest:${accrual.walletId}:${accrual.accrualDate}`
InterestKey(walletId, accrualDate) ==
    "interest:" \o walletId \o ":" \o accrualDate

\* the id of the TransactionLog a job creates for its i-th pending accrual
InterestLogId(j, i) == 100 * j + i

\* writes of an open interest transaction, visible to nobody else
NoTx == [balance |-> [w \in Wallets |-> NoBalance], logs |-> {},
         ledger |-> {}, applied |-> {}, totalInterest |-> 0]

NoWallet == [balance |-> NoBalance, isActive |-> FALSE]

NoJobResult == [returned |-> "nothing"]

\* the arguments of a calculation and the time zone of the process
CalculationInput(principal, days, startDate, tz) ==
    [principal |-> principal, days |-> days, startDate |-> startDate,
     tz |-> tz]

NoInput == CalculationInput(0, 0, NoInstant, 0)

NoJob == [pc |-> "idle", op |-> "none", walletId |-> "", date |-> NoDate,
          wallet |-> NoWallet, pending |-> <<>>, i |-> 0, tx |-> NoTx,
          stale |-> {}, queue |-> <<>>, results |-> <<>>,
          input |-> NoInput, result |-> NoJobResult]

JobInTransaction(j) == job[j].pc \in {"lockWallet", "credit", "commit"}

JobUncommittedKeys(j) ==
    IF JobInTransaction(j) THEN {l.idempotencyKey : l \in job[j].tx.logs}
    ELSE {}

\* the idempotency key is in a row some other open transaction has inserted
KeyUncommittedElsewhere(k, p, j) ==
    \/ \E q \in Calls \ {p} : k \in UncommittedKeys(q)
    \/ \E i \in Jobs \ {j} : k \in JobUncommittedKeys(i)

MarkJobsStale(j, ws) ==
    [i \in DOMAIN job |->
        IF i # j /\ JobInTransaction(i)
        THEN [job[i] EXCEPT !.stale = @ \cup ws] ELSE job[i]]

\* row locks are held by transfer calls (p) and interest jobs (-j)
ReleaseJobRowLocks(j) == [w \in DOMAIN rowLock |->
                            IF rowLock[w] = -j THEN NoLock ELSE rowLock[w]]

\* the transactions a blocked statement of call p waits for
CallWaitsFor(p) ==
    CASE pc[p] = "insert" ->
            {q \in Calls \ {p} : req[p].idempotencyKey \in UncommittedKeys(q)}
            \cup {-j : j \in {i \in Jobs :
                       req[p].idempotencyKey \in JobUncommittedKeys(i)}}
      [] pc[p] = "lockFrom" /\ ActiveWallet(req[p].fromWalletId) ->
            {rowLock[req[p].fromWalletId]} \ {NoLock, p}
      [] pc[p] = "lockTo" /\ ActiveWallet(req[p].toWalletId) ->
            {rowLock[req[p].toWalletId]} \ {NoLock, p}
      [] OTHER -> {}

\* the transactions a blocked statement of job j waits for
JobWaitsFor(j) ==
    CASE job[j].pc = "lockWallet" ->
            {rowLock[job[j].pending[job[j].i].walletId]} \ {NoLock, -j}
      [] job[j].pc = "credit" ->
            LET a == job[j].pending[job[j].i]
                k == InterestKey(a.walletId, a.accrualDate)
            IN  {q \in Calls : k \in UncommittedKeys(q)}
                \cup {-i : i \in {h \in Jobs \ {j} :
                                    k \in JobUncommittedKeys(h)}}
      [] OTHER -> {}

WaitsFor(t) == IF t > 0 THEN CallWaitsFor(t) ELSE JobWaitsFor(-t)

RECURSIVE WaitsForWithin(_, _)
WaitsForWithin(ts, n) ==
    IF n = 0 THEN ts
    ELSE WaitsForWithin(ts \cup UNION {WaitsFor(t) : t \in ts}, n - 1)

\* PostgreSQL's deadlock detector finds the transaction in a wait cycle
Deadlocked(t) ==
    t \in WaitsForWithin(WaitsFor(t), Cardinality(Calls) + Cardinality(Jobs))

----------------------------------------------------------------------------
(* TransferService.transfer, one action per await *)

Return(p, r) ==
    /\ result' = [result EXCEPT ![p] = r]
    /\ pc' = [pc EXCEPT ![p] = "done"]

\* the client repeats the previous call, which was answered
\* CONCURRENT_REQUEST, after every earlier call has returned and the
\* coordination lock of the wallet pair is free again
RetryAfterConflict(p) ==
    /\ p > 2
    /\ \A q \in Calls : q < p => pc[q] = "done"
    /\ result[p - 1].error = "CONCURRENT_REQUEST"
    /\ lock[LockKey(req[p - 1])] = NoLock

\* the call is made: validation, no await before it
Start(p, request) ==
    /\ pc[p] = "idle"
    /\ p \in CallsOf(scenario)
    /\ \A q \in Calls : q < p => pc[q] # "idle"
    /\ scenario \in {"retry", "outage", "edge"}
       => \A q \in Calls : q < p => pc[q] = "done"
    /\ scenario = "conflict" /\ p > 2 => RetryAfterConflict(p)
    /\ scenario = "crash"
       => \A q \in Calls : q < p => pc[q] \in {"done", "crashed"}
    /\ request \in Requests(p)
    /\ req' = [req EXCEPT ![p] = request]
    /\ doneBefore' = [doneBefore EXCEPT ![p] = {q \in Calls : pc[q] = "done"}]
    /\ LET validationError == validateTransferRequest(request) IN
       IF validationError # NoError
       THEN Return(p, TransferResult(FALSE, NoId, "FAILED", validationError,
                                     NoBalance, NoBalance))
       ELSE /\ pc' = [pc EXCEPT ![p] = "getCached"]
            /\ UNCHANGED result
    /\ UNCHANGED <<scenario, accruals, job, redisFailed, wallets, txLogs, ledger, cache, lock, rowLock,
                   transactionLog, stale, errorMessage, missedWith>>

\* Redis is unreachable for the whole behaviour: every command throws
RedisDown == scenario = "outage"

\* Step 1: redisClient.getIdempotencyResult (null on a miss or a Redis error)
GetIdempotencyResult(p) ==
    /\ pc[p] = "getCached"
    /\ \/ /\ ~RedisDown
          /\ cache[req[p].idempotencyKey] # {}
          /\ UNCHANGED redisFailed
          /\ \E cachedResult \in cache[req[p].idempotencyKey] :
               Return(p, [JsonParse(cachedResult) EXCEPT !.isIdempotent = TRUE])
       \/ /\ ~RedisDown
          /\ cache[req[p].idempotencyKey] = {}
          /\ UNCHANGED redisFailed
          /\ pc' = [pc EXCEPT ![p] = "findExisting"]
          /\ UNCHANGED result
       \/ \* Redis error: caught, null
          /\ cache[req[p].idempotencyKey] # {} \/ RedisDown
          /\ redisFailed' = TRUE
          /\ pc' = [pc EXCEPT ![p] = "findExisting"]
          /\ UNCHANGED result
    /\ UNCHANGED <<scenario, accruals, job, wallets, txLogs, ledger, cache, lock, rowLock, req,
                   transactionLog, stale, errorMessage, doneBefore, missedWith>>

\* faulty variant: the row found under the key is ignored
FindExistingIgnored(p) ==
    /\ pc[p] = "findExisting"
    /\ pc' = [pc EXCEPT ![p] = "acquireLock"]
    /\ missedWith' = [missedWith EXCEPT ![p] =
                        {q \in Calls \ {p} : pc[q] \notin {"idle", "done"}}]
    /\ UNCHANGED <<scenario, accruals, job, redisFailed, wallets, txLogs, ledger,
                   cache, lock, rowLock, req, transactionLog, stale,
                   errorMessage, result, doneBefore>>

\* Step 2: TransactionLog.findOne({ where: { idempotencyKey } })
FindExisting(p) ==
    /\ pc[p] = "findExisting"
    /\ IF FindByKey(req[p].idempotencyKey) # {}
       THEN /\ \E existingTransaction \in FindByKey(req[p].idempotencyKey) :
                 Return(p, [TransferResult(
                              existingTransaction.status = "COMPLETED",
                              existingTransaction.id, existingTransaction.status,
                              "", NoBalance, NoBalance)
                            EXCEPT !.isIdempotent = TRUE])
            /\ UNCHANGED missedWith
       ELSE /\ pc' = [pc EXCEPT ![p] = "acquireLock"]
            /\ missedWith' = [missedWith EXCEPT ![p] =
                                {q \in Calls \ {p} : pc[q] \notin {"idle", "done"}}]
            /\ UNCHANGED result
    /\ UNCHANGED <<scenario, accruals, job, redisFailed, wallets, txLogs, ledger, cache, lock, rowLock, req,
                   transactionLog, stale, errorMessage, doneBefore>>

ConcurrentRequest ==
    TransferResult(FALSE, NoId, "PENDING", "CONCURRENT_REQUEST",
                   NoBalance, NoBalance)

\* faulty variant: SET without NX, the lock is taken from its holder
AcquireLockWithoutNX(p) ==
    /\ pc[p] = "acquireLock"
    /\ lock' = [lock EXCEPT ![LockKey(req[p])] = p]
    /\ pc' = [pc EXCEPT ![p] = "begin"]
    /\ UNCHANGED <<scenario, accruals, job, redisFailed, wallets, txLogs, ledger,
                   cache, rowLock, req, transactionLog, stale, errorMessage,
                   result, doneBefore, missedWith>>

\* faulty variant: the CONCURRENT_REQUEST outcome is cached under the key
AcquireLockCachingConflict(p) ==
    /\ pc[p] = "acquireLock"
    /\ IF lock[LockKey(req[p])] = NoLock
       THEN /\ lock' = [lock EXCEPT ![LockKey(req[p])] = p]
            /\ pc' = [pc EXCEPT ![p] = "begin"]
            /\ UNCHANGED <<result, cache>>
       ELSE /\ Return(p, ConcurrentRequest)
            /\ cache' = [cache EXCEPT ![req[p].idempotencyKey] =
                           {JsonStringify(ConcurrentRequest)}]
            /\ UNCHANGED lock
    /\ UNCHANGED <<scenario, accruals, job, redisFailed, wallets, txLogs, ledger,
                   rowLock, req, transactionLog, stale, errorMessage,
                   doneBefore, missedWith>>

\* Step 3: redisClient.acquireLock: SET lock:<key> <value> PX ttl NX
AcquireLock(p) ==
    /\ pc[p] = "acquireLock"
    /\ \/ /\ ~RedisDown
          /\ lock[LockKey(req[p])] = NoLock
          /\ lock' = [lock EXCEPT ![LockKey(req[p])] = p]
          /\ pc' = [pc EXCEPT ![p] = "begin"]
          /\ UNCHANGED <<result, redisFailed>>
       \/ /\ ~RedisDown
          /\ lock[LockKey(req[p])] # NoLock
          /\ Return(p, ConcurrentRequest)
          /\ UNCHANGED <<lock, redisFailed>>
       \/ \* Redis error: caught, null
          /\ lock[LockKey(req[p])] = NoLock
          /\ redisFailed' = TRUE
          /\ Return(p, ConcurrentRequest)
          /\ UNCHANGED lock
    /\ UNCHANGED <<scenario, accruals, job, wallets, txLogs, ledger, cache, rowLock, req,
                   transactionLog, stale, errorMessage, doneBefore, missedWith>>

\* Step 4: sequelize.transaction(SERIALIZABLE) is opened and its first
\* statement, the INSERT of 4.1, is sent: the snapshot is taken
BeginTransaction(p) ==
    /\ pc[p] = "begin"
    /\ pc' = [pc EXCEPT ![p] = "insert"]
    /\ stale' = [stale EXCEPT ![p] = {}]
    /\ UNCHANGED <<scenario, accruals, job, redisFailed, wallets, txLogs, ledger, cache, lock, rowLock, req,
                   transactionLog, errorMessage, result, doneBefore, missedWith>>

\* the transaction callback throws: ROLLBACK, control reaches catch
Rollback(p, message) ==
    /\ rowLock' = ReleaseRowLocks(p)
    /\ errorMessage' = [errorMessage EXCEPT ![p] = message]
    /\ pc' = [pc EXCEPT ![p] = "catch"]

\* 4.1: TransactionLog.create({... status: PENDING}, { transaction: t }).
\* The unique index on idempotency_key makes the INSERT wait for an open
\* transaction that inserted the same key, and fail on a committed one.
CreateTransactionLog(p) ==
    /\ pc[p] = "insert"
    /\ ~KeyUncommittedElsewhere(req[p].idempotencyKey, p, NoId)
    /\ IF UniqueViolation(req[p].idempotencyKey)
       THEN /\ Rollback(p, "Validation error")
            /\ UNCHANGED transactionLog
       ELSE IF ForeignKeyViolation(req[p])
       THEN /\ Rollback(p, "violates foreign key constraint")
            /\ UNCHANGED transactionLog
       ELSE /\ transactionLog' = [transactionLog EXCEPT ![p] = p]
            /\ pc' = [pc EXCEPT ![p] = "lockFrom"]
            /\ UNCHANGED <<rowLock, errorMessage>>
    /\ UNCHANGED <<scenario, accruals, job, redisFailed, wallets, txLogs, ledger, cache, lock, req,
                   stale, result, doneBefore, missedWith>>

\* Wallet.findOne({ where: { id, isActive: true }, lock: UPDATE }) of 4.2 / 4.3
LockWallet(p, w, next, notFound) ==
    IF ~ActiveWallet(w)
    THEN Rollback(p, notFound)
    ELSE /\ rowLock[w] = NoLock
         /\ IF w \in stale[p]
            THEN Rollback(p, "could not serialize access due to concurrent update")
            ELSE /\ rowLock' = [rowLock EXCEPT ![w] = p]
                 /\ pc' = [pc EXCEPT ![p] = next]
                 /\ UNCHANGED errorMessage

\* 4.2: lock and fetch the source wallet
LockSourceWallet(p) ==
    /\ pc[p] = "lockFrom"
    /\ LockWallet(p, req[p].fromWalletId, "lockTo",
                  "Source wallet not found or inactive")
    /\ UNCHANGED <<scenario, accruals, job, redisFailed, wallets, txLogs, ledger, cache, lock, req,
                   transactionLog, stale, result, doneBefore, missedWith>>

\* 4.3: lock and fetch the destination wallet
LockDestinationWallet(p) ==
    /\ pc[p] = "lockTo"
    /\ LockWallet(p, req[p].toWalletId, "execute",
                  "Destination wallet not found or inactive")
    /\ UNCHANGED <<scenario, accruals, job, redisFailed, wallets, txLogs, ledger, cache, lock, req,
                   transactionLog, stale, result, doneBefore, missedWith>>

\* Model.update(values): set() on the instance, then save()
InstanceUpdate(instance, balance) == [instance EXCEPT !.balance = balance]

TransactionLogRow(id, request, status) ==
    [id |-> id, idempotencyKey |-> request.idempotencyKey,
     fromWalletId |-> request.fromWalletId, toWalletId |-> request.toWalletId,
     amount |-> toFixed(request.amount), type |-> "TRANSFER",
     status |-> status, errorMessage |-> ""]

LedgerEntryRow(transactionLogId, walletId, entryType, amount, balanceBefore, balanceAfter) ==
    [transactionLogId |-> transactionLogId, walletId |-> walletId,
     entryType |-> entryType, amount |-> amount,
     balanceBefore |-> balanceBefore, balanceAfter |-> balanceAfter]

\* 4.4 - 4.9 and COMMIT: both rows are locked, nothing of it is visible to
\* another transaction before the commit
ExecuteTransfer(p) ==
    /\ pc[p] = "execute"
    /\ LET request == req[p]
           fromWalletId == request.fromWalletId
           toWalletId == request.toWalletId
           fromFetched == wallets[fromWalletId]
           toFetched == wallets[toWalletId]
           transferAmount == request.amount
           currentBalance == decimal(fromFetched.balance)
           newFromBalance == subtract(decimal(fromFetched.balance), request.amount)
           newToBalance == add(decimal(toFetched.balance), request.amount)
           fromWallet == InstanceUpdate(fromFetched, toFixed(newFromBalance))
           toWallet == InstanceUpdate(toFetched, toFixed(newToBalance))
       IN
       IF isGreaterThan(transferAmount, currentBalance)
       THEN /\ Rollback(p, "Insufficient balance")
            /\ UNCHANGED <<wallets, txLogs, ledger, stale, result, job>>
       ELSE /\ wallets' = [wallets EXCEPT ![fromWalletId] = fromWallet,
                                          ![toWalletId] = toWallet]
            /\ ledger' = ledger \cup
                 {LedgerEntryRow(transactionLog[p], fromWalletId, "DEBIT",
                                 toFixed(request.amount), fromWallet.balance,
                                 toFixed(newFromBalance)),
                  LedgerEntryRow(transactionLog[p], toWalletId, "CREDIT",
                                 toFixed(request.amount), toWallet.balance,
                                 toFixed(newToBalance))}
            /\ txLogs' = txLogs \cup
                 {TransactionLogRow(transactionLog[p], request, "COMPLETED")}
            /\ rowLock' = ReleaseRowLocks(p)
            /\ stale' = MarkStale(p, {fromWalletId, toWalletId})
            /\ job' = MarkJobsStale(NoId, {fromWalletId, toWalletId})
            /\ result' = [result EXCEPT ![p] =
                 TransferResult(TRUE, transactionLog[p], "COMPLETED", "",
                                toFixed(newFromBalance), toFixed(newToBalance))]
            /\ pc' = [pc EXCEPT ![p] = "setCached"]
            /\ UNCHANGED errorMessage
    /\ UNCHANGED <<scenario, accruals, redisFailed, cache, lock, req,
                   transactionLog, doneBefore, missedWith>>

\* TransactionLog.update(values, { where: { id } }) outside a transaction
UpdateLogById(id, status, message) ==
    {IF l.id = id THEN [l EXCEPT !.status = status, !.errorMessage = message]
     ELSE l : l \in txLogs}

\* faulty variant: the catch block marks the log of the request's key
MarkFailedByKey(p) ==
    {IF l.idempotencyKey = req[p].idempotencyKey
     THEN [l EXCEPT !.status = "FAILED", !.errorMessage = errorMessage[p]]
     ELSE l : l \in txLogs}

\* catch: if (transactionLog && transactionLog.id) mark that log FAILED
MarkFailed(p) ==
    IF transactionLog[p] # NoId
    THEN UpdateLogById(transactionLog[p], "FAILED", errorMessage[p])
    ELSE txLogs

\* faulty variant: the catch block returns failedResult without caching it
CatchErrorWithoutCaching(p) ==
    /\ pc[p] = "catch"
    /\ txLogs' = MarkFailed(p)
    /\ result' = [result EXCEPT ![p] =
         TransferResult(FALSE, transactionLog[p], "FAILED", errorMessage[p],
                        NoBalance, NoBalance)]
    /\ pc' = [pc EXCEPT ![p] = "releaseLock"]
    /\ UNCHANGED <<scenario, accruals, job, redisFailed, wallets, ledger, cache,
                   lock, rowLock, req, transactionLog, stale, errorMessage,
                   doneBefore, missedWith>>

\* catch: mark the log FAILED if it was created, build failedResult
CatchError(p) ==
    /\ pc[p] = "catch"
    /\ txLogs' = MarkFailed(p)
    /\ result' = [result EXCEPT ![p] =
         TransferResult(FALSE, transactionLog[p], "FAILED", errorMessage[p],
                        NoBalance, NoBalance)]
    /\ pc' = [pc EXCEPT ![p] = "setCached"]
    /\ UNCHANGED <<scenario, accruals, job, redisFailed, wallets, ledger, cache, lock, rowLock, req,
                   transactionLog, stale, errorMessage, doneBefore, missedWith>>

\* Step 5 and the catch block: redisClient.setIdempotencyResult (SETEX)
SetIdempotencyResult(p) ==
    /\ pc[p] = "setCached"
    /\ \/ /\ ~RedisDown
          /\ cache' = [cache EXCEPT ![req[p].idempotencyKey] =
                         {JsonStringify(result[p])}]
          /\ UNCHANGED redisFailed
       \/ \* Redis error: caught, false
          /\ redisFailed' = TRUE
          /\ UNCHANGED cache
    /\ pc' = [pc EXCEPT ![p] = "releaseLock"]
    /\ UNCHANGED <<scenario, accruals, job, wallets, txLogs, ledger, lock, rowLock, req,
                   transactionLog, stale, errorMessage, result, doneBefore, missedWith>>

\* faulty variant: the key is deleted whatever value it holds
ReleaseLockUnconditionally(p) ==
    /\ pc[p] = "releaseLock"
    /\ lock' = [lock EXCEPT ![LockKey(req[p])] = NoLock]
    /\ pc' = [pc EXCEPT ![p] = "done"]
    /\ UNCHANGED <<scenario, accruals, job, redisFailed, wallets, txLogs, ledger,
                   cache, rowLock, req, transactionLog, stale, errorMessage,
                   result, doneBefore, missedWith>>

\* finally: redisClient.releaseLock, the Lua compare-and-delete; then return
ReleaseLock(p) ==
    /\ pc[p] = "releaseLock"
    /\ \/ /\ ~RedisDown
          /\ lock' = [lock EXCEPT ![LockKey(req[p])] =
                        IF @ = p THEN NoLock ELSE @]
          /\ UNCHANGED redisFailed
       \/ \* Redis error: caught, false
          /\ redisFailed' = TRUE
          /\ UNCHANGED lock
    /\ pc' = [pc EXCEPT ![p] = "done"]
    /\ UNCHANGED <<scenario, accruals, job, wallets, txLogs, ledger, cache, rowLock, req,
                   transactionLog, stale, errorMessage, result, doneBefore, missedWith>>

----------------------------------------------------------------------------
(* Redis expiry *)

\* faulty variant: the lock key is set without a time-to-live
LockNeverExpires(k) ==
    /\ FALSE
    /\ UNCHANGED <<scenario, accruals, job, redisFailed, wallets, txLogs, ledger,
                   cache, lock, rowLock, pc, req, transactionLog, stale,
                   errorMessage, result, doneBefore, missedWith>>

\* PX LOCK_TTL_MS has passed since the lock was set
LockExpires(k) ==
    /\ lock[k] # NoLock
    /\ lock' = [lock EXCEPT ![k] = NoLock]
    /\ UNCHANGED <<scenario, accruals, job, redisFailed, wallets, txLogs, ledger, cache, rowLock, pc, req,
                   transactionLog, stale, errorMessage, result, doneBefore, missedWith>>

\* IDEMPOTENCY_TTL_SECONDS have passed since the result was cached
IdempotencyResultExpires(k) ==
    /\ cache[k] # {}
    /\ cache' = [cache EXCEPT ![k] = {}]
    /\ UNCHANGED <<scenario, accruals, job, redisFailed, wallets, txLogs, ledger, lock, rowLock, pc, req,
                   transactionLog, stale, errorMessage, result, doneBefore, missedWith>>

----------------------------------------------------------------------------
(* Loss of the process *)

\* the process serving the call dies while the call holds the coordination
\* lock: no further statement of the call runs, the finally block included;
\* PostgreSQL rolls the open transaction back when the connection closes
Crash(p) ==
    /\ pc[p] \in {"begin", "insert", "lockFrom", "lockTo", "execute", "catch",
                  "setCached", "releaseLock"}
    /\ pc' = [pc EXCEPT ![p] = "crashed"]
    /\ rowLock' = ReleaseRowLocks(p)
    /\ UNCHANGED <<scenario, accruals, job, redisFailed, wallets, txLogs, ledger,
                   cache, lock, req, transactionLog, stale, errorMessage,
                   result, doneBefore, missedWith>>

----------------------------------------------------------------------------
(* PostgreSQL deadlock detection *)

\* the blocked statement of the call fails with "deadlock detected"
DeadlockAbort(p) ==
    /\ InTransaction(p)
    /\ Deadlocked(p)
    /\ Rollback(p, "deadlock detected")
    /\ UNCHANGED <<scenario, accruals, job, redisFailed, wallets, txLogs, ledger,
                   cache, lock, req, transactionLog, stale, result, doneBefore,
                   missedWith>>

----------------------------------------------------------------------------
(* InterestService.accrueInterestForWallet, one action per await *)

TransferVars == <<cache, lock, pc, req, transactionLog, errorMessage, result,
                  doneBefore, missedWith, redisFailed>>

JobReturn(j, r) ==
    job' = [job EXCEPT ![j].pc = "done", ![j].result = r]

\* the orders in which findAll may return the rows
Orderings(rows) ==
    {order \in [1..Cardinality(rows) -> rows] :
        \A m \in DOMAIN order : \A n \in DOMAIN order :
            m # n => order[m] # order[n]}

\* accrueInterestForWallet returns r: to the caller, or to the loop of
\* accrueInterestForAllWallets, which keeps a result that is not null, lets
\* an exception through, and goes on with the next wallet
AccrueReturn(j, r) ==
    IF job[j].op # "accrueAll"
    THEN [job EXCEPT ![j].pc = "done", ![j].result = r]
    ELSE IF r.returned = "throws"
    THEN [job EXCEPT ![j].pc = "done", ![j].result = r, ![j].results = <<>>]
    ELSE LET results == IF r.returned = "result"
                        THEN Append(job[j].results, r) ELSE job[j].results
         IN  IF job[j].i = Len(job[j].queue)
             THEN [job EXCEPT ![j].pc = "done", ![j].results = <<>>,
                              ![j].result = [returned |-> "results",
                                             results |-> results]]
             ELSE [job EXCEPT ![j].pc = "fetchWallet",
                              ![j].walletId = job[j].queue[job[j].i + 1],
                              ![j].i = @ + 1,
                              ![j].results = results]

\* the InterestCalculationResult an accrual call returns
CalculationResult(walletId, principalAmount, interestAmount, daysInYear, leapYear, accrualDate) ==
    [returned |-> "result", walletId |-> walletId,
     principalAmount |-> principalAmount, interestAmount |-> interestAmount,
     daysInYear |-> daysInYear, isLeapYear |-> leapYear,
     accrualDate |-> accrualDate]

\* InterestService.calculateDailyInterest(principal, date)
calculateDailyInterestOn(principal, date) ==
    LET year == date.year
        daysInYear == getDaysInYear(year)
        interestAmount == calculateDailyInterestOfStored(principal, daysInYear)
    IN  CalculationResult("", principal, toFixed(interestAmount), daysInYear,
                          isLeapYear(year), date.iso)

\* the primary key of an accrual row: the job that inserted it (0 for a row
\* recorded before the behaviour starts) and the wallet
AccrualId(j, walletId) == <<j, walletId>>

AccrualRow(id, calculation) ==
    [id |-> id, walletId |-> calculation.walletId,
     accrualDate |-> calculation.accrualDate,
     principalAmount |-> calculation.principalAmount,
     interestAmount |-> calculation.interestAmount,
     daysInYear |-> calculation.daysInYear,
     isLeapYear |-> calculation.isLeapYear,
     isApplied |-> FALSE, transactionLogId |-> NoId]

\* InterestAccrual.findOne({ where: { walletId, accrualDate } })
FindAccrual(walletId, accrualDate) ==
    {a \in accruals : a.walletId = walletId /\ a.accrualDate = accrualDate}

\* faulty variant: interest_accruals without the unique constraint
AccrualUniqueViolationNoIndex(walletId, accrualDate) == FALSE

\* the unique constraint on interest_accruals (wallet_id, accrual_date)
\* rejects the row
AccrualUniqueViolation(walletId, accrualDate) ==
    FindAccrual(walletId, accrualDate) # {}

\* the call is made
StartAccrue(j, walletId, date) ==
    /\ job[j].pc = "idle"
    /\ j \in JobsOf(scenario)
    /\ \A i \in Jobs : i < j => job[i].pc # "idle"
    /\ scenario = "interest" => \A i \in Jobs : i < j => job[i].pc = "done"
    /\ job' = [job EXCEPT ![j].pc = "fetchWallet", ![j].op = "accrue",
                          ![j].walletId = walletId, ![j].date = date]
    /\ UNCHANGED <<scenario, wallets, txLogs, ledger, rowLock, stale, accruals,
                   TransferVars>>

\* accrueInterestForAllWallets is called
StartAccrueAll(j, date) ==
    /\ job[j].pc = "idle"
    /\ j \in JobsOf(scenario)
    /\ \A i \in Jobs : i < j => job[i].pc # "idle"
    /\ scenario = "interest" => \A i \in Jobs : i < j => job[i].pc = "done"
    /\ job' = [job EXCEPT ![j].pc = "findWallets", ![j].op = "accrueAll",
                          ![j].date = date]
    /\ UNCHANGED <<scenario, wallets, txLogs, ledger, rowLock, stale, accruals,
                   TransferVars>>

\* Wallet.findAll({ where: { isActive: true } }), in any order; the loop
\* starts with the first wallet
AccrueFindWallets(j) ==
    /\ job[j].pc = "findWallets"
    /\ LET active == {w \in Wallets : wallets[w].isActive} IN
       IF active = {}
       THEN JobReturn(j, [returned |-> "results", results |-> <<>>])
       ELSE \E order \in Orderings(active) :
              job' = [job EXCEPT ![j].pc = "fetchWallet",
                                 ![j].walletId = order[1],
                                 ![j].queue = order, ![j].i = 1,
                                 ![j].results = <<>>]
    /\ UNCHANGED <<scenario, wallets, txLogs, ledger, rowLock, stale, accruals,
                   TransferVars>>

\* faulty variant: the wallet is not asked whether it is active
AccrueFetchWalletOfAnyWallet(j) ==
    /\ job[j].pc = "fetchWallet"
    /\ LET wallet == IF job[j].walletId \in DOMAIN wallets
                     THEN wallets[job[j].walletId] ELSE NoWallet
       IN  IF isNegative(wallet.balance) \/ isZero(wallet.balance)
           THEN job' = AccrueReturn(j, [returned |-> "null"])
           ELSE job' = [job EXCEPT ![j].pc = "findExisting",
                                   ![j].wallet = wallet]
    /\ UNCHANGED <<scenario, wallets, txLogs, ledger, rowLock, stale, accruals,
                   TransferVars>>

\* Wallet.findByPk(walletId) and the two early returns
AccrueFetchWallet(j) ==
    /\ job[j].pc = "fetchWallet"
    /\ LET wallet == IF job[j].walletId \in DOMAIN wallets
                     THEN wallets[job[j].walletId] ELSE NoWallet
       IN  IF ~wallet.isActive
           THEN job' = AccrueReturn(j, [returned |-> "null"])
           ELSE IF isNegative(wallet.balance) \/ isZero(wallet.balance)
           THEN job' = AccrueReturn(j, [returned |-> "null"])
           ELSE job' = [job EXCEPT ![j].pc = "findExisting",
                                   ![j].wallet = wallet]
    /\ UNCHANGED <<scenario, wallets, txLogs, ledger, rowLock, stale, accruals,
                   TransferVars>>

\* InterestAccrual.findOne for the date: an existing accrual is returned
AccrueFindExisting(j) ==
    /\ job[j].pc = "findExisting"
    /\ LET found == FindAccrual(job[j].walletId, job[j].date.iso) IN
       IF found # {}
       THEN \E existing \in found :
              job' = AccrueReturn(j, CalculationResult(job[j].walletId,
                              existing.principalAmount, existing.interestAmount,
                              existing.daysInYear, existing.isLeapYear,
                              existing.accrualDate))
       ELSE job' = [job EXCEPT ![j].pc = "create"]
    /\ UNCHANGED <<scenario, wallets, txLogs, ledger, rowLock, stale, accruals,
                   TransferVars>>

\* InterestAccrual.create of the calculation on the balance fetched before;
\* the unique constraint on (wallet_id, accrual_date) makes it throw
AccrueCreate(j) ==
    /\ job[j].pc = "create"
    /\ LET calculation ==
             [calculateDailyInterestOn(job[j].wallet.balance, job[j].date)
                EXCEPT !.walletId = job[j].walletId]
       IN  IF AccrualUniqueViolation(job[j].walletId, calculation.accrualDate)
           THEN /\ job' = AccrueReturn(j, [returned |-> "throws",
                                               error |-> "Validation error"])
                /\ UNCHANGED accruals
           ELSE /\ accruals' = accruals \cup
                     {AccrualRow(AccrualId(j, job[j].walletId), calculation)}
                /\ job' = AccrueReturn(j, calculation)
    /\ UNCHANGED <<scenario, wallets, txLogs, ledger, rowLock, stale,
                   TransferVars>>

----------------------------------------------------------------------------
(* InterestService.applyAccruedInterest, one action per await *)

ApplyInterestResult(success, message, count, totalInterest, error) ==
    [returned |-> "result", success |-> success, message |-> message,
     accruals |-> count, totalInterest |-> totalInterest, error |-> error]

\* the call is made; an empty walletId or NoDate is an argument left out
StartApply(j, walletId, date) ==
    /\ job[j].pc = "idle"
    /\ j \in JobsOf(scenario)
    /\ \A i \in Jobs : i < j => job[i].pc # "idle"
    /\ scenario = "interest" => \A i \in Jobs : i < j => job[i].pc = "done"
    /\ job' = [job EXCEPT ![j].pc = "select", ![j].op = "apply",
                          ![j].walletId = walletId, ![j].date = date]
    /\ UNCHANGED <<scenario, wallets, txLogs, ledger, rowLock, stale, accruals,
                   TransferVars>>

\* InterestAccrual.findAll({ where: whereClause }), outside the transaction
ApplySelect(j) ==
    /\ job[j].pc = "select"
    /\ LET pendingAccruals ==
             {a \in accruals :
                /\ ~a.isApplied
                /\ job[j].walletId # "" => a.walletId = job[j].walletId
                /\ job[j].date # NoDate => a.accrualDate = job[j].date.iso}
       IN  IF pendingAccruals = {}
           THEN JobReturn(j, ApplyInterestResult(TRUE,
                    "No pending interest accruals to apply", 0, 0, ""))
           ELSE \E order \in Orderings(pendingAccruals) :
                  job' = [job EXCEPT ![j].pc = "begin", ![j].pending = order,
                                     ![j].i = 1]
    /\ UNCHANGED <<scenario, wallets, txLogs, ledger, rowLock, stale, accruals,
                   TransferVars>>

\* sequelize.transaction(SERIALIZABLE) is opened and its first statement is
\* sent: the snapshot is taken
ApplyBegin(j) ==
    /\ job[j].pc = "begin"
    /\ job' = [job EXCEPT ![j].pc = "lockWallet", ![j].stale = {},
                          ![j].tx = NoTx]
    /\ UNCHANGED <<scenario, wallets, txLogs, ledger, rowLock, stale, accruals,
                   TransferVars>>

\* the transaction callback throws: ROLLBACK, the catch block returns
JobRollback(j, message) ==
    /\ rowLock' = ReleaseJobRowLocks(j)
    /\ job' = [job EXCEPT ![j].pc = "done", ![j].tx = NoTx,
                          ![j].result = ApplyInterestResult(FALSE,
                              "Failed to apply interest accruals", 0, 0, message)]

\* the loop moves to the next pending accrual, or the callback ends
NextAccrual(j, tx) ==
    [job EXCEPT ![j].tx = tx,
                ![j].i = @ + 1,
                ![j].pc = IF job[j].i = Len(job[j].pending)
                          THEN "commit" ELSE "lockWallet"]

\* faulty variant: the wallet is looked up with isActive: true, as transfer
\* does, and an accrual of an inactive wallet is skipped
ApplyLockWalletActiveOnly(j) ==
    /\ job[j].pc = "lockWallet"
    /\ LET walletId == job[j].pending[job[j].i].walletId IN
       IF ~ActiveWallet(walletId)
       THEN /\ job' = NextAccrual(j, job[j].tx)
            /\ UNCHANGED rowLock
       ELSE /\ rowLock[walletId] \in {NoLock, -j}
            /\ IF walletId \in job[j].stale
               THEN JobRollback(j,
                      "could not serialize access due to concurrent update")
               ELSE /\ rowLock' = [rowLock EXCEPT ![walletId] = -j]
                    /\ job' = [job EXCEPT ![j].pc = "credit"]
    /\ UNCHANGED <<scenario, wallets, txLogs, ledger, stale, accruals,
                   TransferVars>>

\* Wallet.findByPk(accrual.walletId, { lock: UPDATE, transaction: t })
ApplyLockWallet(j) ==
    /\ job[j].pc = "lockWallet"
    /\ LET walletId == job[j].pending[job[j].i].walletId IN
       IF walletId \notin DOMAIN wallets
       THEN /\ job' = NextAccrual(j, job[j].tx)
            /\ UNCHANGED rowLock
       ELSE /\ rowLock[walletId] \in {NoLock, -j}
            /\ IF walletId \in job[j].stale
               THEN JobRollback(j,
                      "could not serialize access due to concurrent update")
               ELSE /\ rowLock' = [rowLock EXCEPT ![walletId] = -j]
                    /\ job' = [job EXCEPT ![j].pc = "credit"]
    /\ UNCHANGED <<scenario, wallets, txLogs, ledger, stale, accruals,
                   TransferVars>>

\* faulty variant: the log is never updated to COMPLETED
InterestLogRowLeftPending(id, accrual, status) ==
    [id |-> id,
     idempotencyKey |-> InterestKey(accrual.walletId, accrual.accrualDate),
     fromWalletId |-> "", toWalletId |-> accrual.walletId,
     amount |-> accrual.interestAmount, type |-> "INTEREST",
     status |-> "PENDING", errorMessage |-> ""]

\* the TransactionLog of an interest credit, as applyAccruedInterest leaves it
InterestLogRow(id, accrual, status) ==
    [id |-> id,
     idempotencyKey |-> InterestKey(accrual.walletId, accrual.accrualDate),
     fromWalletId |-> "", toWalletId |-> accrual.walletId,
     amount |-> accrual.interestAmount, type |-> "INTEREST",
     status |-> status, errorMessage |-> ""]

\* faulty variant: the interest is computed again on the balance fetched
NewInterestBalanceRecomputed(wallet, accrual) ==
    add(decimal(wallet.balance),
        calculateDailyInterest(decimal(wallet.balance), accrual.daysInYear))

\* faulty variant: the interest is added to the principal recorded with the
\* accrual, not to the balance of the row just locked
NewInterestBalanceOnSnapshot(wallet, accrual) ==
    add(decimal(accrual.principalAmount), decimal(accrual.interestAmount))

\* FinancialMath.add(wallet.balance, accrual.interestAmount)
NewInterestBalance(wallet, accrual) ==
    add(decimal(wallet.balance), decimal(accrual.interestAmount))

\* faulty variant: the writes of the loop iteration are made without
\* { transaction: t } and are committed one by one
ApplyCreditAutocommit(j) ==
    /\ job[j].pc = "credit"
    /\ LET accrual == job[j].pending[job[j].i]
           walletId == accrual.walletId
           idempotencyKey == InterestKey(walletId, accrual.accrualDate)
           tx == job[j].tx
           fetched == wallets[walletId]
           newBalance == add(decimal(fetched.balance),
                             decimal(accrual.interestAmount))
           wallet == InstanceUpdate(fetched, toFixed(newBalance))
           id == InterestLogId(j, job[j].i)
       IN
       /\ ~KeyUncommittedElsewhere(idempotencyKey, NoId, j)
       /\ IF UniqueViolation(idempotencyKey)
          THEN /\ JobRollback(j, "Validation error")
               /\ UNCHANGED <<wallets, txLogs, ledger, accruals>>
          ELSE /\ wallets' = [wallets EXCEPT ![walletId] = wallet]
               /\ txLogs' = txLogs \cup {InterestLogRow(id, accrual, "COMPLETED")}
               /\ ledger' = ledger \cup
                     {LedgerEntryRow(id, walletId, "CREDIT",
                                     accrual.interestAmount, wallet.balance,
                                     toFixed(newBalance))}
               /\ accruals' = {IF a.id = accrual.id
                               THEN [a EXCEPT !.isApplied = TRUE,
                                              !.transactionLogId = id]
                               ELSE a : a \in accruals}
               /\ job' = NextAccrual(j,
                     [tx EXCEPT !.applied = @ \cup {[id |-> accrual.id,
                                                     transactionLogId |-> id]},
                                !.totalInterest = @ + accrual.interestAmount])
               /\ UNCHANGED rowLock
    /\ UNCHANGED <<scenario, stale, TransferVars>>

\* the rest of one loop iteration: TransactionLog.create, wallet.update,
\* LedgerEntry.create, transactionLog.update, accrual.update, all in the
\* transaction and on the locked row
ApplyCredit(j) ==
    /\ job[j].pc = "credit"
    /\ LET accrual == job[j].pending[job[j].i]
           walletId == accrual.walletId
           idempotencyKey == InterestKey(walletId, accrual.accrualDate)
           tx == job[j].tx
           fetched == IF tx.balance[walletId] # NoBalance
                      THEN [wallets[walletId] EXCEPT
                              !.balance = tx.balance[walletId]]
                      ELSE wallets[walletId]
           newBalance == NewInterestBalance(fetched, accrual)
           wallet == InstanceUpdate(fetched, toFixed(newBalance))
           id == InterestLogId(j, job[j].i)
       IN
       /\ ~KeyUncommittedElsewhere(idempotencyKey, NoId, j)
       /\ IF UniqueViolation(idempotencyKey)
          THEN JobRollback(j, "Validation error")
          ELSE /\ job' = NextAccrual(j,
                     [balance |-> [tx.balance EXCEPT ![walletId] = wallet.balance],
                      logs |-> tx.logs \cup
                                 {InterestLogRow(id, accrual, "COMPLETED")},
                      ledger |-> tx.ledger \cup
                                 {LedgerEntryRow(id, walletId, "CREDIT",
                                                 accrual.interestAmount,
                                                 wallet.balance,
                                                 toFixed(newBalance))},
                      applied |-> tx.applied \cup
                                 {[id |-> accrual.id,
                                   transactionLogId |-> id]},
                      totalInterest |-> tx.totalInterest + accrual.interestAmount])
               /\ UNCHANGED rowLock
    /\ UNCHANGED <<scenario, wallets, txLogs, ledger, stale, accruals,
                   TransferVars>>

\* COMMIT: the writes of the transaction become visible, the result is built
ApplyCommit(j) ==
    /\ job[j].pc = "commit"
    /\ LET tx == job[j].tx
           written == {w \in Wallets : tx.balance[w] # NoBalance}
       IN
       /\ wallets' = [w \in DOMAIN wallets |->
                        IF w \in written
                        THEN [wallets[w] EXCEPT !.balance = tx.balance[w]]
                        ELSE wallets[w]]
       /\ txLogs' = txLogs \cup tx.logs
       /\ ledger' = ledger \cup tx.ledger
       /\ accruals' =
            {IF \E u \in tx.applied : u.id = a.id
             THEN [a EXCEPT !.isApplied = TRUE,
                            !.transactionLogId =
                               (CHOOSE u \in tx.applied :
                                   u.id = a.id).transactionLogId]
             ELSE a : a \in accruals}
       /\ rowLock' = ReleaseJobRowLocks(j)
       /\ stale' = MarkStale(NoId, written)
       /\ job' = [MarkJobsStale(j, written) EXCEPT
                    ![j].pc = "done", ![j].tx = NoTx,
                    ![j].result = ApplyInterestResult(TRUE,
                        "Successfully applied interest accruals",
                        Cardinality(tx.applied), tx.totalInterest, "")]
    /\ UNCHANGED <<scenario, TransferVars>>

\* the blocked statement of the job fails with "deadlock detected"
JobDeadlockAbort(j) ==
    /\ JobInTransaction(j)
    /\ Deadlocked(-j)
    /\ JobRollback(j, "deadlock detected")
    /\ UNCHANGED <<scenario, wallets, txLogs, ledger, stale, accruals,
                   TransferVars>>

----------------------------------------------------------------------------
(* InterestService: the calculations that read no store *)

RECURSIVE DailyBreakdown(_, _, _, _)
\* the loop of calculateInterestForDays from currentDate on
DailyBreakdown(principal, days, currentDate, tz) ==
    IF days = 0 THEN <<>>
    ELSE <<calculateDailyInterestOn(principal, DateOf(currentDate, tz))>>
         \o DailyBreakdown(principal, days - 1, setNextDate(currentDate), tz)

RECURSIVE TotalInterest(_)
\* totalInterest.plus(result.interestAmount) over the breakdown, in 0.00001
TotalInterest(breakdown) ==
    IF breakdown = <<>> THEN 0
    ELSE add(decimal(breakdown[1].interestAmount), TotalInterest(Tail(breakdown)))

\* InterestService.calculateInterestForDays(principal, days, startDate)
calculateInterestForDays(principal, days, startDate, tz) ==
    LET dailyBreakdown == DailyBreakdown(principal, days, startDate, tz)
    IN  [returned |-> "breakdown",
         totalInterest |-> toFixed(TotalInterest(dailyBreakdown)),
         dailyBreakdown |-> dailyBreakdown]

\* principals of the calculations, stored 4-digit values
CalcPrincipals == {1, 7300, 10000, 1000000, 1000000000}

\* the offsets of the process time zone from UTC, in minutes
TimeZones == {-300, 0, 60}

\* the dates of single calculations: a day in the middle of each year, the
\* leap day, and days around the turn of a year, at midnight UTC and late in
\* the UTC day
CalcDates ==
    {Instant(<<y, 6, 15>>, 0) : y \in 1890..2110}
    \cup {Instant(c, minute) :
             c \in {<<2024, 2, 29>>, <<2023, 12, 31>>, <<2024, 1, 1>>},
             minute \in {0, 1410}}

\* the start dates of periods
CalcStartDates ==
    {Instant(<<2023, 12, 27>>, 0), Instant(<<2024, 2, 25>>, 0),
     Instant(<<2024, 12, 27>>, 1410)}

\* InterestController.calculateDaily: calculateDailyInterest(principal,
\* new Date(date)) in a process whose time zone is tz
CalculateDaily(j, principal, date, tz) ==
    /\ job[j].pc = "idle"
    /\ j \in JobsOf(scenario)
    /\ job' = [job EXCEPT
                 ![j].pc = "done", ![j].op = "calculateDaily",
                 ![j].input = CalculationInput(principal, 1, date, tz),
                 ![j].date = DateOf(date, tz),
                 ![j].result = calculateDailyInterestOn(principal,
                                                        DateOf(date, tz))]
    /\ UNCHANGED <<scenario, wallets, txLogs, ledger, rowLock, stale, accruals,
                   TransferVars>>

\* InterestController.calculatePeriod: calculateInterestForDays(principal,
\* days, new Date(startDate))
CalculatePeriod(j, principal, days, startDate, tz) ==
    /\ job[j].pc = "idle"
    /\ j \in JobsOf(scenario)
    /\ job' = [job EXCEPT
                 ![j].pc = "done", ![j].op = "calculatePeriod",
                 ![j].input = CalculationInput(principal, days, startDate, tz),
                 ![j].date = DateOf(startDate, tz),
                 ![j].result = calculateInterestForDays(principal, days,
                                                        startDate, tz)]
    /\ UNCHANGED <<scenario, wallets, txLogs, ledger, rowLock, stale, accruals,
                   TransferVars>>

----------------------------------------------------------------------------
(* Specification *)

Wallet(balance, isActive) == [balance |-> balance, isActive |-> isActive]

\* the balances the wallets start with: two funded wallets and a third,
\* empty one
OpeningBalance(w) == CASE w = "A" -> 2000 [] w = "B" -> 1000 [] OTHER -> 0

InitStore(thirdIsActive) ==
    /\ wallets = [w \in Wallets |->
                    Wallet(OpeningBalance(w),
                           IF w \in {"A", "B"} THEN TRUE ELSE thirdIsActive)]
    /\ txLogs = {}
    /\ ledger = {}
    /\ cache = [k \in Keys |-> {}]
    /\ lock = [k \in LockKeys |-> NoLock]
    /\ rowLock = [w \in Wallets |-> NoLock]

InitCalls ==
    /\ pc = [p \in Calls |-> "idle"]
    /\ req = [p \in Calls |-> NoRequest]
    /\ transactionLog = [p \in Calls |-> NoId]
    /\ stale = [p \in Calls |-> {}]
    /\ errorMessage = [p \in Calls |-> ""]
    /\ result = [p \in Calls |-> NoResult]
    /\ doneBefore = [p \in Calls |-> {}]
    /\ missedWith = [p \in Calls |-> {}]
    /\ redisFailed = FALSE
    /\ job = [j \in Jobs |-> NoJob]

Init ==
    /\ scenario = "pair"
    /\ InitStore(FALSE)
    /\ InitCalls
    /\ accruals = {}

InitRetry ==
    /\ scenario = "retry"
    /\ InitStore(FALSE)
    /\ InitCalls
    /\ accruals = {}

\* Redis is down from the start
InitOutage ==
    /\ scenario = "outage"
    /\ InitStore(FALSE)
    /\ InitCalls
    /\ accruals = {}

\* the accruals of the funded wallets for the first date are recorded
InitInterest ==
    /\ scenario = "interest"
    /\ InitStore(TRUE)
    /\ InitCalls
    /\ accruals =
         {AccrualRow(AccrualId(0, w),
                     [calculateDailyInterestOn(wallets[w].balance,
                                               Date("2024-02-29", 2024))
                        EXCEPT !.walletId = w]) : w \in {"A", "B"}}

\* interest jobs alone: the same accruals are recorded, the third wallet is
\* inactive
InitJobs ==
    /\ scenario = "jobs"
    /\ InitStore(FALSE)
    /\ InitCalls
    /\ accruals =
         {AccrualRow(AccrualId(0, w),
                     [calculateDailyInterestOn(wallets[w].balance,
                                               Date("2024-02-29", 2024))
                        EXCEPT !.walletId = w]) : w \in {"A", "B"}}

\* two calls in flight on one wallet pair, then retries
InitConflict ==
    /\ scenario = "conflict"
    /\ InitStore(FALSE)
    /\ InitCalls
    /\ accruals = {}

\* calls one after the other whose process may die
InitCrash ==
    /\ scenario = "crash"
    /\ InitStore(FALSE)
    /\ InitCalls
    /\ accruals = {}

\* calls one after the other with wallets that are missing or inactive and
\* with amounts of five fractional digits
InitEdge ==
    /\ scenario = "edge"
    /\ InitStore(FALSE)
    /\ InitCalls
    /\ accruals = {}

\* transfers around the three wallets, all active
InitCycle ==
    /\ scenario = "cycle"
    /\ InitStore(TRUE)
    /\ InitCalls
    /\ accruals = {}

\* interest jobs on wallets that earn nothing: the second wallet is empty, the
\* third was funded and deactivated after interest had been accrued on it
InitDormant ==
    /\ scenario = "dormant"
    /\ wallets = [w \in Wallets |->
                    Wallet(IF w = "B" THEN 0 ELSE 2000, w # "C")]
    /\ txLogs = {}
    /\ ledger = {}
    /\ cache = [k \in Keys |-> {}]
    /\ lock = [k \in LockKeys |-> NoLock]
    /\ rowLock = [w \in Wallets |-> NoLock]
    /\ InitCalls
    /\ accruals =
         {AccrualRow(AccrualId(0, w),
                     [calculateDailyInterestOn(wallets[w].balance,
                                               Date("2024-02-29", 2024))
                        EXCEPT !.walletId = w]) : w \in {"A", "C"}}

\* the calculations alone
InitCalc ==
    /\ scenario = "calc"
    /\ InitStore(TRUE)
    /\ InitCalls
    /\ accruals = {}

TransferStep(p) ==
    \/ \E request \in Requests(p) : Start(p, request)
    \/ GetIdempotencyResult(p)
    \/ FindExisting(p)
    \/ AcquireLock(p)
    \/ BeginTransaction(p)
    \/ CreateTransactionLog(p)
    \/ LockSourceWallet(p)
    \/ LockDestinationWallet(p)
    \/ ExecuteTransfer(p)
    \/ CatchError(p)
    \/ SetIdempotencyResult(p)
    \/ ReleaseLock(p)

InterestStep(j) ==
    \/ StartAccrue(j, "A", Date("2025-03-01", 2025))
    \/ StartAccrue(j, "A", Date("2024-02-29", 2024))
    \/ AccrueFetchWallet(j)
    \/ AccrueFindExisting(j)
    \/ AccrueCreate(j)
    \/ StartApply(j, "", NoDate)
    \/ ApplySelect(j)
    \/ ApplyBegin(j)
    \/ ApplyLockWallet(j)
    \/ ApplyCredit(j)
    \/ ApplyCommit(j)

Next ==
    \/ \E p \in Calls : TransferStep(p)
    \/ \E p \in Calls : DeadlockAbort(p)
    \/ \E k \in LockKeys : LockExpires(k)
    \/ \E k \in Keys : IdempotencyResultExpires(k)

\* calls made one after the other never wait for each other
NextRetry ==
    \/ \E p \in Calls : TransferStep(p)
    \/ \E k \in LockKeys : LockExpires(k)
    \/ \E k \in Keys : IdempotencyResultExpires(k)

\* the steps a transfer call reaches while Redis is down
OutageStep(p) ==
    \/ \E request \in Requests(p) : Start(p, request)
    \/ GetIdempotencyResult(p)
    \/ FindExisting(p)
    \/ AcquireLock(p)

NextOutage == \E p \in Calls : OutageStep(p)

\* the accrual of one wallet, of all wallets, and the application, for the
\* day after the recorded one
JobStep(j) ==
    \/ StartAccrue(j, "A", Date("2025-03-01", 2025))
    \/ StartAccrueAll(j, Date("2025-03-01", 2025))
    \/ AccrueFindWallets(j)
    \/ AccrueFetchWallet(j)
    \/ AccrueFindExisting(j)
    \/ AccrueCreate(j)
    \/ StartApply(j, "", NoDate)
    \/ ApplySelect(j)
    \/ ApplyBegin(j)
    \/ ApplyLockWallet(j)
    \/ ApplyCredit(j)
    \/ ApplyCommit(j)

NextJobs ==
    \/ \E j \in Jobs : JobStep(j)
    \/ \E j \in Jobs : JobDeadlockAbort(j)

\* accruals asked for any wallet, also one that does not exist, and
\* applications of everything pending
DormantStep(j) ==
    \/ \E w \in Wallets \cup {MissingWallet} :
         StartAccrue(j, w, Date("2025-03-01", 2025))
    \/ AccrueFetchWallet(j)
    \/ AccrueFindExisting(j)
    \/ AccrueCreate(j)
    \/ StartApply(j, "", NoDate)
    \/ ApplySelect(j)
    \/ ApplyBegin(j)
    \/ ApplyLockWallet(j)
    \/ ApplyCredit(j)
    \/ ApplyCommit(j)

NextDormant ==
    \/ \E j \in Jobs : DormantStep(j)
    \/ \E j \in Jobs : JobDeadlockAbort(j)

NextInterest ==
    \/ \E p \in Calls : TransferStep(p)
    \/ \E j \in Jobs : InterestStep(j)
    \/ \E p \in Calls : DeadlockAbort(p)
    \/ \E j \in Jobs : JobDeadlockAbort(j)

\* no lock outlives its time-to-live here: a second call enters Phase 2 only
\* after the first has released
NextConflict ==
    \/ \E p \in Calls : TransferStep(p)
    \/ \E k \in Keys : IdempotencyResultExpires(k)

NextCrash ==
    \/ \E p \in Calls : TransferStep(p)
    \/ \E p \in Calls : Crash(p)
    \/ \E k \in LockKeys : LockExpires(k)

NextEdge == \E p \in Calls : TransferStep(p)

NextCycle ==
    \/ \E p \in Calls : TransferStep(p)
    \/ \E p \in Calls : DeadlockAbort(p)

CalcStep(j) ==
    \/ \E principal \in CalcPrincipals : \E date \in CalcDates :
         \E tz \in TimeZones : CalculateDaily(j, principal, date, tz)
    \/ \E principal \in {10000, 1000000000} : \E days \in 1..MaxDays :
         \E startDate \in CalcStartDates : \E tz \in TimeZones :
             CalculatePeriod(j, principal, days, startDate, tz)

NextCalc == \E j \in Jobs : CalcStep(j)

Spec == Init /\ [][Next]_vars

SpecRetry == InitRetry /\ [][NextRetry]_vars

SpecOutage == InitOutage /\ [][NextOutage]_vars

SpecInterest == InitInterest /\ [][NextInterest]_vars

SpecJobs == InitJobs /\ [][NextJobs]_vars

SpecCalc == InitCalc /\ [][NextCalc]_vars

SpecDormant == InitDormant /\ [][NextDormant]_vars

SpecCycle == InitCycle /\ [][NextCycle]_vars

SpecConflict == InitConflict /\ [][NextConflict]_vars

SpecEdge == InitEdge /\ [][NextEdge]_vars

\* Redis removes a key when its time-to-live has passed: a lock that stays
\* set does expire
SpecCrash ==
    /\ InitCrash
    /\ [][NextCrash]_vars
    /\ \A k \in LockKeys : WF_vars(LockExpires(k))

----------------------------------------------------------------------------
(* Properties *)

Returned(p) == pc[p] = "done"

\* the call passed validation and ran the transaction itself
Executed(p) ==
    /\ Returned(p)
    /\ validateTransferRequest(req[p]) = NoError
    /\ ~result[p].isIdempotent
    /\ result[p].status \in {"COMPLETED", "FAILED"}

\* the call is between BEGIN and COMMIT / ROLLBACK of its transaction
InPhase2(p) == pc[p] \in {"insert", "lockFrom", "lockTo", "execute"}

LogIdsOfKey(k) == {l.id : l \in FindByKey(k)}

EntriesOfKey(k, entryType) ==
    {e \in ledger : e.transactionLogId \in LogIdsOfKey(k) /\ e.entryType = entryType}

\* C1: two transfer calls made one after the other with the same key, wallets
\* and amount, the first of which completed: the balances are mutated exactly
\* once (one DEBIT / CREDIT pair), and the second call returns the success
\* flag, transaction id, status and balances of the first, flagged isIdempotent.
C1_ReplayEqualsFirst ==
    \A p \in Calls : \A q \in Calls :
        ( /\ ~redisFailed
          /\ Returned(q) /\ p \in doneBefore[q]
          /\ req[q] = req[p]
          /\ Executed(p) /\ result[p].status = "COMPLETED" )
        => /\ Cardinality(EntriesOfKey(req[p].idempotencyKey, "DEBIT")) = 1
           /\ Cardinality(EntriesOfKey(req[p].idempotencyKey, "CREDIT")) = 1
           /\ result[q].success = result[p].success
           /\ result[q].transactionId = result[p].transactionId
           /\ result[q].status = result[p].status
           /\ result[q].fromBalance = result[p].fromBalance
           /\ result[q].toBalance = result[p].toBalance
           /\ result[q].isIdempotent

\* C2: once a call with key K has returned COMPLETED or FAILED from its own
\* execution, every later call with the same request returns that status and
\* commits nothing of its own.
C2_SameTerminalResult ==
    \A p \in Calls : \A q \in Calls :
        ( /\ ~redisFailed
          /\ Returned(q) /\ p \in doneBefore[q]
          /\ req[q] = req[p]
          /\ \A r \in Calls :
                (pc[r] # "idle" /\ req[r].idempotencyKey = req[p].idempotencyKey)
                => req[r] = req[p]
          /\ Executed(p) )
        => /\ result[q].status = result[p].status
           /\ \A l \in txLogs : l.id # q

\* C3: two calls with the same key whose lookups both missed before either
\* returned produce one result: once both have returned, a TransactionLog
\* stored for the key and a result cached for the key carry the same status
\* and the same transaction id.
C3_CacheAgreesWithLog ==
    \A p \in Calls : \A q \in Calls \ {p} :
        ( /\ ~redisFailed
          /\ Returned(p) /\ Returned(q)
          /\ req[p].idempotencyKey = req[q].idempotencyKey
          /\ q \in missedWith[p] /\ p \in missedWith[q] )
        => \A l \in FindByKey(req[p].idempotencyKey) :
             \A cached \in cache[req[p].idempotencyKey] :
                /\ JsonParse(cached).status = l.status
                /\ JsonParse(cached).transactionId = l.id

\* C4: for every idempotency key at most one TransactionLog row and at most
\* one DEBIT and one CREDIT ledger entry are ever committed.
C4_AtMostOncePerKey ==
    \A k \in Keys :
        /\ Cardinality(FindByKey(k)) <= 1
        /\ Cardinality(EntriesOfKey(k, "DEBIT")) <= 1
        /\ Cardinality(EntriesOfKey(k, "CREDIT")) <= 1

\* C4 witness: a second transaction for a key whose log is committed was
\* opened and rejected by the unique index.
C4_Witness ==
    \E p \in Calls : \E q \in Calls \ {p} :
        /\ req[p].idempotencyKey = req[q].idempotencyKey
        /\ Returned(p) /\ result[p].status = "COMPLETED"
        /\ Returned(q) /\ result[q].error = "Validation error"
        /\ Cardinality(FindByKey(req[p].idempotencyKey)) = 1

\* C5 as claimed: of two calls with different keys on the same wallet pair
\* that were in flight together, exactly one acquires the lock and runs the
\* transfer; the other returns CONCURRENT_REQUEST. Stated for the second
\* call's lock step once the first call has run its transfer and returned:
\* that step returns CONCURRENT_REQUEST.
C5_ExactlyOneProceeds ==
    [][ \A p \in Calls : \A q \in Calls \ {p} :
          ( /\ ~redisFailed'
            /\ Executed(p)
            /\ p \notin doneBefore[q]
            /\ req[p].idempotencyKey # req[q].idempotencyKey
            /\ LockKey(req[p]) = LockKey(req[q])
            /\ pc[q] = "acquireLock" /\ pc'[q] # pc[q] )
          => /\ pc'[q] = "done"
             /\ result'[q] = ConcurrentRequest
      ]_vars

\* C5 as amended: a call whose SET NX finds the lock key of its wallet pair
\* present returns CONCURRENT_REQUEST in that step and changes no wallet,
\* TransactionLog, ledger entry, cache entry or lock; a call enters the
\* transaction only by setting the free lock key to its own value; and a
\* call that returned CONCURRENT_REQUEST has created no TransactionLog.
C5_ConflictChangesNothing ==
    [][ \A p \in Calls :
          /\ ( pc[p] = "acquireLock" /\ pc'[p] # pc[p]
               /\ lock[LockKey(req[p])] # NoLock )
             => /\ pc'[p] = "done" /\ result'[p] = ConcurrentRequest
                /\ UNCHANGED <<wallets, txLogs, ledger, cache, lock>>
          /\ ( pc[p] = "acquireLock" /\ pc'[p] = "begin" )
             => /\ lock[LockKey(req[p])] = NoLock
                /\ lock'[LockKey(req[p])] = p
          /\ ( pc'[p] = "done" /\ result'[p] = ConcurrentRequest )
             => /\ transactionLog'[p] = NoId
                /\ \A l \in txLogs' : l.id # p
      ]_vars

\* C5 witness: one call has returned CONCURRENT_REQUEST while the other call
\* on the pair, with a different key, holds the lock inside its transaction.
C5_Witness ==
    \E p \in Calls : \E q \in Calls \ {p} :
        /\ Returned(p) /\ result[p] = ConcurrentRequest
        /\ req[p].idempotencyKey # req[q].idempotencyKey
        /\ LockKey(req[p]) = LockKey(req[q])
        /\ InPhase2(q) /\ lock[LockKey(req[q])] = q

\* C6: at most one transfer on a wallet pair is inside its Phase-2 database
\* transaction.
C6_OnePhase2PerPair ==
    \A p \in Calls : \A q \in Calls \ {p} :
        ~( InPhase2(p) /\ InPhase2(q) /\ LockKey(req[p]) = LockKey(req[q]) )

\* C7: every completed TRANSFER has exactly one DEBIT and one CREDIT entry,
\* of equal amounts, with debit.balanceBefore - debit.balanceAfter = amount
\* and credit.balanceAfter - credit.balanceBefore = amount.
C7_BalancedLedger ==
    \A l \in txLogs :
        (l.type = "TRANSFER" /\ l.status = "COMPLETED") =>
            LET debits == {e \in ledger : e.transactionLogId = l.id
                                          /\ e.entryType = "DEBIT"}
                credits == {e \in ledger : e.transactionLogId = l.id
                                           /\ e.entryType = "CREDIT"}
            IN  /\ Cardinality(debits) = 1
                /\ Cardinality(credits) = 1
                /\ \A d \in debits : \A c \in credits :
                     /\ d.amount = c.amount
                     /\ d.balanceBefore - d.balanceAfter = d.amount
                     /\ c.balanceAfter - c.balanceBefore = c.amount

\* C8: when the balance check of a transfer runs with an amount greater than
\* the source wallet's balance, the transaction is rolled back with no wallet
\* changed and the call returns a result with status FAILED; with an amount
\* equal to (or below) the balance the transfer is committed as COMPLETED.
C8_InsufficientBalanceFails ==
    [][ \A p \in Calls :
          /\ ( pc[p] = "execute" /\ pc'[p] # pc[p] ) =>
               IF req[p].amount > decimal(wallets[req[p].fromWalletId].balance)
               THEN /\ pc'[p] = "catch"
                    /\ errorMessage'[p] = "Insufficient balance"
                    /\ UNCHANGED <<wallets, txLogs, ledger>>
               ELSE /\ pc'[p] = "setCached"
                    /\ result'[p].status = "COMPLETED"
          /\ ( pc'[p] = "done" /\ errorMessage'[p] = "Insufficient balance" ) =>
                /\ result'[p].status = "FAILED"
                /\ ~result'[p].success
      ]_vars

\* C8 witness: one call has returned FAILED for insufficient balance and
\* another has completed a transfer of the source wallet's whole balance.
C8_Witness ==
    \E p \in Calls : \E q \in Calls \ {p} :
        /\ Returned(p) /\ errorMessage[p] = "Insufficient balance"
        /\ result[p].status = "FAILED"
        /\ Returned(q) /\ result[q].status = "COMPLETED"
        /\ ~result[q].isIdempotent /\ result[q].fromBalance = 0

\* C9: the committed balance of every wallet is never negative, whatever the
\* interleaving of transfers (also of transfers that share their source
\* wallet on different pairs) and interest applications.
C9_NonNegativeBalances ==
    \A w \in DOMAIN wallets : wallets[w].balance >= 0

\* C9 witness: two transfers from the same source wallet on different pairs
\* have both run their transaction, one of them completed, and an interest
\* application has committed a credit.
C9_Witness ==
    /\ \E p \in Calls : \E q \in Calls \ {p} :
          /\ Executed(p) /\ Executed(q)
          /\ req[p].fromWalletId = req[q].fromWalletId
          /\ LockKey(req[p]) # LockKey(req[q])
          /\ result[p].status = "COMPLETED"
    /\ \E l \in txLogs : l.type = "INTEREST" /\ l.status = "COMPLETED"
    /\ \E j \in Jobs : job[j].pc = "done" /\ job[j].op = "apply"

\* C10: a stored TransactionLog is never deleted, its status only ever moves
\* from PENDING to COMPLETED or FAILED, and no row has status REVERSED.
C10_StatusChangesOnce ==
    [][ /\ \A l \in txLogs : \E m \in txLogs' :
              /\ m.id = l.id
              /\ \/ m.status = l.status
                 \/ l.status = "PENDING" /\ m.status \in {"COMPLETED", "FAILED"}
        /\ \A m \in txLogs' : m.status \in TransactionStatus \ {"REVERSED"}
      ]_vars

\* C10 witness: a call's catch block has issued its FAILED update (it had
\* created a log in its transaction) while the store holds a COMPLETED row.
C10_Witness ==
    \E p \in Calls :
        /\ Returned(p) /\ result[p].status = "FAILED"
        /\ transactionLog[p] # NoId
        /\ \E l \in txLogs : l.status = "COMPLETED"

BusinessRuleErrors ==
    {"Insufficient balance", "Source wallet not found or inactive",
     "Destination wallet not found or inactive"}

\* C11: after a transfer whose transaction failed on a business rule
\* (insufficient balance, missing or inactive wallet) has returned, the store
\* holds a TransactionLog for its idempotency key with status FAILED and an
\* error detail, and getTransactionByIdempotencyKey returns it.
C11_FailedLogIsDurable ==
    \A p \in Calls :
        ( /\ Returned(p) /\ Executed(p)
          /\ result[p].status = "FAILED"
          /\ errorMessage[p] \in BusinessRuleErrors )
        => \E l \in getTransactionByIdempotencyKey(req[p].idempotencyKey) :
              /\ l.status = "FAILED"
              /\ l.errorMessage # ""

\* C12: while a transfer is inside its transaction at or after the wallet
\* row locks (waiting for them or holding them), a TransactionLog row with
\* its key and status PENDING is committed, so that a lookup by that key from
\* another caller finds it.
C12_PendingLogIsCommitted ==
    \A p \in Calls :
        pc[p] \in {"lockFrom", "lockTo", "execute"}
        => \E l \in getTransactionByIdempotencyKey(req[p].idempotencyKey) :
              l.status = "PENDING"

\* the rules a request breaks, by the message that names each
ViolatedRules(request) ==
    (IF request.idempotencyKey \in {"", " ", "  "}
     THEN {"Idempotency key is required"} ELSE {})
    \cup (IF request.fromWalletId = "" THEN {"Source wallet ID is required"} ELSE {})
    \cup (IF request.toWalletId = "" THEN {"Destination wallet ID is required"} ELSE {})
    \cup (IF request.fromWalletId # "" /\ request.fromWalletId = request.toWalletId
          THEN {"Cannot transfer to the same wallet"} ELSE {})
    \cup (IF request.amount = NoAmount THEN {"Amount is required"} ELSE {})
    \cup (IF request.amount # NoAmount /\ request.amount <= 0
          THEN {"Amount must be positive"} ELSE {})

\* C13: a transfer request with an empty or blank idempotency key, a missing
\* source or destination wallet, identical source and destination, or an
\* amount that is zero or negative returns a FAILED result whose error names
\* a rule the request breaks, and the call writes no TransactionLog, takes no
\* lock, writes no cache entry and changes no balance.
C13_InvalidRequestWritesNothing ==
    [][ \A p \in Calls :
          ( pc[p] = "idle" /\ pc'[p] # "idle" /\ ViolatedRules(req'[p]) # {} )
          => /\ pc'[p] = "done"
             /\ ~result'[p].success
             /\ result'[p].status = "FAILED"
             /\ result'[p].error \in ViolatedRules(req'[p])
             /\ result'[p].transactionId = NoId
             /\ UNCHANGED <<wallets, txLogs, ledger, cache, lock, rowLock,
                            transactionLog>>
      ]_vars

\* C13 witness: a call with a blank key and a call with a negative amount
\* are rejected while another transfer is inside its transaction.
C13_Witness ==
    \E p \in Calls : \E q \in Calls \ {p} :
        /\ Returned(p) /\ req[p].idempotencyKey = " "
        /\ result[p].status = "FAILED"
        /\ result[p].error = "Idempotency key is required"
        /\ InPhase2(q)

RECURSIVE SumOfAmounts(_)
\* the sum of the amounts of a set of TransactionLog rows
SumOfAmounts(logs) ==
    IF logs = {} THEN 0
    ELSE LET l == CHOOSE x \in logs : TRUE
         IN l.amount + SumOfAmounts(logs \ {l})

CompletedInto(w) == {l \in txLogs : l.status = "COMPLETED" /\ l.toWalletId = w}

CompletedOutOf(w) == {l \in txLogs : l.status = "COMPLETED" /\ l.fromWalletId = w}

\* C14: when Redis commands have failed (GET, SET NX, SETEX or the
\* compare-and-delete script, at any point of any call), the store stays
\* correct: no idempotency key has more than one completed transfer, every
\* wallet's balance is its opening balance plus the completed transfers into
\* it minus the completed transfers out of it (each counted once, none in
\* part), and no balance is negative.
C14_CacheFailureKeepsStore ==
    redisFailed =>
        /\ \A k \in Keys :
              /\ Cardinality({l \in FindByKey(k) : l.status = "COMPLETED"}) <= 1
              /\ Cardinality(EntriesOfKey(k, "DEBIT")) <= 1
              /\ Cardinality(EntriesOfKey(k, "CREDIT")) <= 1
        /\ \A w \in Wallets :
              /\ wallets[w].balance =
                   OpeningBalance(w) + SumOfAmounts(CompletedInto(w))
                                     - SumOfAmounts(CompletedOutOf(w))
              /\ wallets[w].balance >= 0

\* C14 witness: a transfer completed, its SETEX and its lock release both
\* failed (no cached result, the lock still held by the finished call), and
\* a later call with the same key, whose GET found nothing, was answered from
\* the stored TransactionLog.
C14_Witness ==
    /\ redisFailed
    /\ \E p \in Calls : \E q \in Calls \ {p} :
          /\ Executed(p) /\ result[p].status = "COMPLETED"
          /\ Returned(q) /\ p \in doneBefore[q]
          /\ req[q].idempotencyKey = req[p].idempotencyKey
          /\ result[q].isIdempotent
          /\ cache[req[p].idempotencyKey] = {}
          /\ lock[LockKey(req[p])] = p

\* C15: while Redis is entirely unavailable, a valid transfer on wallets with
\* no other operation in flight still runs its transaction and returns
\* COMPLETED or FAILED: it is not refused.
C15_CacheOutageStillExecutes ==
    \A p \in Calls :
        ( /\ RedisDown
          /\ Returned(p)
          /\ validateTransferRequest(req[p]) = NoError
          /\ \A q \in Calls \ {p} : pc[q] \in {"idle", "done"} )
        => result[p].status \in {"COMPLETED", "FAILED"}

\* C16: once an InterestAccrual row exists for (wallet, date), every later
\* accrueInterestForWallet(wallet, date) returns the principal, interest,
\* days in year, leap-year flag and date stored in that row, whatever ran
\* in between (here: transfers that change or empty the wallet's balance).
\* The rows taken are those recorded before the behaviour starts, so that
\* every call of the behaviour is a later call.
C16_LaterAccrualReturnsStoredRow ==
    \A j \in Jobs :
        ( job[j].pc = "done" /\ job[j].op = "accrue" )
        => \A a \in accruals :
             ( /\ a.id[1] = 0
               /\ a.walletId = job[j].walletId
               /\ a.accrualDate = job[j].date.iso )
             => /\ job[j].result.returned = "result"
                /\ job[j].result.principalAmount = a.principalAmount
                /\ job[j].result.interestAmount = a.interestAmount
                /\ job[j].result.daysInYear = a.daysInYear
                /\ job[j].result.isLeapYear = a.isLeapYear
                /\ job[j].result.accrualDate = a.accrualDate

\* C17: at most one InterestAccrual row exists per (wallet, accrual date) in
\* every reachable state, under any interleaving of accrueInterestForWallet
\* and accrueInterestForAllWallets calls.
C17_OneAccrualPerWalletAndDate ==
    \A a \in accruals : \A b \in accruals :
        (a.walletId = b.walletId /\ a.accrualDate = b.accrualDate) => a.id = b.id

\* C17 witness: a single-wallet accrual and a batch accrual ran together for
\* the same date, both found no accrual of the wallet, one inserted the row
\* and the insert of the other was rejected.
C17_Witness ==
    \E i \in Jobs : \E j \in Jobs \ {i} :
        /\ {job[i].op, job[j].op} = {"accrue", "accrueAll"}
        /\ job[i].date = job[j].date
        /\ job[i].pc = "done" /\ job[i].result.returned = "throws"
        /\ \E a \in accruals : a.id[1] = j /\ a.walletId = job[i].walletId

RECURSIVE SumOfInterest(_)
\* the sum of the interest amounts of a set of InterestAccrual rows
SumOfInterest(rows) ==
    IF rows = {} THEN 0
    ELSE LET a == CHOOSE x \in rows : TRUE
         IN a.interestAmount + SumOfInterest(rows \ {a})

AppliedTo(w) == {a \in accruals : a.walletId = w /\ a.isApplied}

\* the committed INTEREST logs and CREDIT entries of an accrual
InterestLogsOf(a) == FindByKey(InterestKey(a.walletId, a.accrualDate))

InterestEntriesOf(a) ==
    {e \in ledger : e.transactionLogId \in {l.id : l \in InterestLogsOf(a)}}

\* C18: across any interleaving of applyAccruedInterest calls (two calls
\* that both selected the same pending accrual before either committed
\* included), the interest of each accrual is credited at most once: an
\* accrual has at most one log and one ledger entry, and every balance is
\* the opening balance plus the interest of the wallet's applied accruals.
\* A step taken once an accrual is applied changes neither the accrual, nor
\* its log, nor its ledger entry.
C18_InterestCreditedOnce ==
    /\ [](\A a \in accruals :
             /\ Cardinality(InterestLogsOf(a)) <= 1
             /\ Cardinality(InterestEntriesOf(a)) <= 1
             /\ ~a.isApplied => InterestLogsOf(a) = {})
    /\ [](\A w \in Wallets :
             wallets[w].balance = OpeningBalance(w) + SumOfInterest(AppliedTo(w)))
    /\ [][ \A a \in accruals :
             a.isApplied => /\ a \in accruals'
                            /\ InterestLogsOf(a)' = InterestLogsOf(a)
                            /\ InterestEntriesOf(a)' = InterestEntriesOf(a)
         ]_vars

\* C18 witness: two applications selected the same pending accrual, both
\* have returned, one applied it and the other failed.
C18_Witness ==
    \E i \in Jobs : \E j \in Jobs \ {i} :
        /\ job[i].op = "apply" /\ job[j].op = "apply"
        /\ job[i].pc = "done" /\ job[j].pc = "done"
        /\ job[i].result.success /\ ~job[j].result.success
        /\ \E m \in DOMAIN job[i].pending : \E n \in DOMAIN job[j].pending :
              /\ job[i].pending[m] = job[j].pending[n]
              /\ \E a \in accruals : a.id = job[i].pending[m].id /\ a.isApplied

\* the ids of the TransactionLog rows a job's transaction inserts
JobLogIds(j) == {InterestLogId(j, i) : i \in 1..Len(job[j].pending)}

\* C19: if the processing of any one of the accruals selected by an
\* applyAccruedInterest call fails, the call applies none of them: it
\* returns success = false with no accrual and no interest, no INTEREST log
\* and no ledger entry of the call is committed, no selected accrual is
\* linked to a log of the call, and no balance has moved (every balance is
\* the opening balance plus the interest of the accruals applied by calls
\* that succeeded).
C19_FailedApplyAppliesNothing ==
    \A j \in Jobs :
        ( job[j].pc = "done" /\ job[j].op = "apply" /\ ~job[j].result.success )
        => /\ job[j].result.accruals = 0
           /\ job[j].result.totalInterest = 0
           /\ \A l \in txLogs : l.id \notin JobLogIds(j)
           /\ \A e \in ledger : e.transactionLogId \notin JobLogIds(j)
           /\ \A a \in accruals : a.transactionLogId \notin JobLogIds(j)
           /\ \A w \in Wallets :
                 wallets[w].balance =
                    OpeningBalance(w)
                    + SumOfInterest({a \in AppliedTo(w) :
                         \E i \in Jobs : /\ job[i].result.returned = "result"
                                         /\ job[i].op = "apply"
                                         /\ job[i].result.success
                                         /\ a.transactionLogId \in JobLogIds(i)})

\* C19 witness: an application failed on its second accrual, after the
\* writes for the first one had been made in its transaction.
C19_Witness ==
    \E j \in Jobs :
        /\ job[j].pc = "done" /\ job[j].op = "apply"
        /\ ~job[j].result.success
        /\ Len(job[j].pending) = 2 /\ job[j].i = 2

\* the accruals a job selected that belong to a wallet
SelectedFor(j, w) ==
    {job[j].pending[n] : n \in {m \in DOMAIN job[j].pending :
                                   job[j].pending[m].walletId = w}}

\* C20: when an applyAccruedInterest call commits, then for each pending
\* accrual it processed exactly one TransactionLog of type INTEREST with no
\* source wallet and status COMPLETED and exactly one ledger entry, a
\* CREDIT, are committed with the accrual's stored interest amount, the
\* accrual becomes applied and linked to that log, and every wallet's
\* balance grows by exactly the stored interest amounts of its accruals.
C20_SuccessfulApplyCreditsStoredInterest ==
    [][ \A j \in Jobs :
          ( job[j].pc = "commit" /\ job'[j].pc = "done" )
          => /\ job'[j].result.success
             /\ job'[j].result.accruals = Len(job[j].pending)
             /\ \A n \in DOMAIN job[j].pending :
                  LET accrual == job[j].pending[n]
                      key == InterestKey(accrual.walletId, accrual.accrualDate)
                      logs == {l \in txLogs' : l.idempotencyKey = key}
                  IN  /\ {l \in txLogs : l.idempotencyKey = key} = {}
                      /\ Cardinality(logs) = 1
                      /\ \A l \in logs :
                           /\ l.type = "INTEREST"
                           /\ l.fromWalletId = ""
                           /\ l.toWalletId = accrual.walletId
                           /\ l.status = "COMPLETED"
                           /\ l.amount = accrual.interestAmount
                           /\ LET entries == {e \in ledger' :
                                                e.transactionLogId = l.id}
                              IN  /\ Cardinality(entries) = 1
                                  /\ \A e \in entries :
                                       /\ e.entryType = "CREDIT"
                                       /\ e.walletId = accrual.walletId
                                       /\ e.amount = accrual.interestAmount
                           /\ \E a \in accruals' :
                                /\ a.id = accrual.id
                                /\ a.isApplied
                                /\ a.transactionLogId = l.id
                                /\ a.interestAmount = accrual.interestAmount
             /\ \A w \in Wallets :
                  wallets'[w].balance =
                     wallets[w].balance + SumOfInterest(SelectedFor(j, w))
      ]_vars

\* C20 witness: an application of two accruals has committed after a
\* transfer had moved the balances the accruals were computed on.
C20_Witness ==
    \E j \in Jobs :
        /\ job[j].pc = "done" /\ job[j].op = "apply"
        /\ job[j].result.success /\ job[j].result.accruals = 2
        /\ \E l \in txLogs : l.type = "TRANSFER" /\ l.status = "COMPLETED"
        /\ \E a \in accruals :
              a.isApplied /\ wallets[a.walletId].balance # a.principalAmount + a.interestAmount

\* n divides y
DivisibleBy(y, n) == \E k \in 0..y : k * n = y

\* C21: for every year y, isLeapYear(y) is true exactly when y is divisible
\* by 4 and not by 100, or divisible by 400, and getDaysInYear(y) is 366
\* exactly when isLeapYear(y) and 365 otherwise; a daily calculation reports
\* these two values for the year it read from its date.
C21_LeapYearRule ==
    \A j \in Jobs :
        job[j].op = "calculateDaily" /\ job[j].pc = "done" =>
            LET y == job[j].date.year
                leap == (DivisibleBy(y, 4) /\ ~DivisibleBy(y, 100))
                        \/ DivisibleBy(y, 400)
            IN  /\ isLeapYear(y) = leap
                /\ getDaysInYear(y) = (IF leap THEN 366 ELSE 365)
                /\ job[j].result.isLeapYear = leap
                /\ job[j].result.daysInYear = (IF leap THEN 366 ELSE 365)

\* a daily calculation for a date of 1900, a year divisible by 100 and not by
\* 400, has returned 365 days
C21_Witness ==
    \E j \in Jobs :
        /\ job[j].op = "calculateDaily" /\ job[j].pc = "done"
        /\ job[j].date.year = 1900
        /\ ~job[j].result.isLeapYear
        /\ job[j].result.daysInYear = 365

RECURSIVE DayAfter(_, _)
\* the calendar day n days after the day c
DayAfter(c, n) == IF n = 0 THEN c ELSE DayAfter(NextDay(c), n - 1)

\* C22: calculateInterestForDays(principal, n, startDate) returns n
\* day-records for n consecutive calendar dates beginning at startDate, and
\* each record's daysInYear and isLeapYear are those of the calendar year of
\* that record's own accrualDate, also when the span crosses a year boundary.
C22_PeriodRecordsFollowTheirOwnYear ==
    \A j \in Jobs :
        job[j].op = "calculatePeriod" /\ job[j].pc = "done" =>
            LET input == job[j].input
                breakdown == job[j].result.dailyBreakdown
            IN  /\ Len(breakdown) = input.days
                /\ \A k \in 1..Len(breakdown) :
                     LET day == DayAfter(input.startDate.utc, k - 1)
                     IN  /\ breakdown[k].accrualDate
                              = toISODate(Instant(day, 0))
                         /\ breakdown[k].daysInYear = getDaysInYear(day[1])
                         /\ breakdown[k].isLeapYear = isLeapYear(day[1])

\* the count i of 0.0001 is p * 275 / (1000 * d) rounded half up, p a count
\* of 0.0001 as well; a principal of whole tenths is reduced by 1000 first
RoundedHalfUp(i, p, d) ==
    IF p % 1000 = 0
    THEN /\ (2 * i - 1) * d <= 2 * (p \div 1000) * AnnualRatePerMille
         /\ 2 * (p \div 1000) * AnnualRatePerMille < (2 * i + 1) * d
    ELSE /\ (2 * i - 1) * 1000 * d <= 2 * p * AnnualRatePerMille
         /\ 2 * p * AnnualRatePerMille < (2 * i + 1) * 1000 * d

\* C23: calculateDailyInterest(P, date) returns P times the annual rate
\* 0.275 divided by D, rounded half up to 4 fractional digits, D the day
\* count of the year the date reports (getFullYear); for P = 100000.0000 it returns
\* 75.1366 with 366 days on 2024-02-29 and 75.3425 with 365 days on
\* 2023-06-15.
C23_DailyInterestRoundedHalfUp ==
    \A j \in Jobs :
        job[j].op = "calculateDaily" /\ job[j].pc = "done" =>
            LET P == job[j].input.principal
                r == job[j].result
            IN  /\ r.daysInYear = (IF DivisibleBy(job[j].date.year, 4)
                                       /\ (DivisibleBy(job[j].date.year, 100)
                                           => DivisibleBy(job[j].date.year, 400))
                                    THEN 366 ELSE 365)
                /\ r.principalAmount = P
                /\ RoundedHalfUp(r.interestAmount, P, r.daysInYear)
                /\ P = 1000000000 /\ r.accrualDate = "2024-02-29"
                   => r.interestAmount = 751366 /\ r.daysInYear = 366
                /\ P = 1000000000 /\ r.accrualDate = "2023-06-15"
                   => r.interestAmount = 753425 /\ r.daysInYear = 365

\* the daily interest of 100000.0000 on 2023-06-15 has been calculated, and
\* its fifth fractional digit has rounded the fourth up
C23_Witness ==
    \E j \in Jobs :
        /\ job[j].op = "calculateDaily" /\ job[j].pc = "done"
        /\ job[j].input.principal = 1000000000
        /\ job[j].result.accrualDate = "2023-06-15"
        /\ job[j].result.interestAmount = 753425


\* the place of a wallet identity in the sorted order
Rank(w) == CASE w = "A" -> 1 [] w = "B" -> 2 [] OTHER -> 3

\* C24: inside Phase 2 every transfer takes its two wallet row locks in the
\* sorted order of the wallet identities, whatever its direction: a transfer
\* that holds one row lock and asks for the second holds the smaller
\* identity; and concurrent transfers over overlapping wallets (A to B, B to
\* C and C to A, under three different coordination locks) never reach a
\* cyclic wait on row locks.
C24_RowLocksInSortedOrder ==
    \A p \in Calls :
        /\ pc[p] = "lockTo" /\ rowLock[req[p].fromWalletId] = p
           => Rank(req[p].fromWalletId) < Rank(req[p].toWalletId)
        /\ ~Deadlocked(p)

\* C25: releaseLock removes the lock key only if the key still holds the
\* value this caller set when acquiring it: the step in which a call runs
\* releaseLock changes no lock that holds another value, so a caller whose
\* lock has expired and been re-acquired by a later caller never deletes that
\* later caller's lock; the only change the step makes is to free its own key
\* while it holds its own value.
C25_ReleaseOnlyOwnLock ==
    [][\A p \in Calls :
         pc[p] = "releaseLock" /\ pc'[p] = "done" =>
             \A k \in LockKeys :
                 /\ lock[k] # p => lock'[k] = lock[k]
                 /\ lock'[k] # lock[k]
                    => k = LockKey(req[p]) /\ lock'[k] = NoLock]_vars

\* a call has completed its transfer and run releaseLock without a Redis
\* error while a later caller held the key: the later caller began its
\* transaction before the first committed, and still holds the lock
C25_Witness ==
    \E p \in Calls : \E q \in Calls \ {p} :
        /\ pc[p] = "done" /\ result[p].status = "COMPLETED"
        /\ ~result[p].isIdempotent
        /\ ~redisFailed
        /\ InTransaction(q) /\ stale[q] # {}
        /\ LockKey(req[q]) = LockKey(req[p])
        /\ lock[LockKey(req[p])] = q

\* the call is between the acquisition of the coordination lock and the
\* finally block
AfterAcquire(p) ==
    pc[p] \in {"begin", "insert", "lockFrom", "lockTo", "execute", "catch",
               "setCached"}

\* C26: for every transfer that acquired the coordination lock, on the
\* success path and on the failure path alike, the final result is written
\* to the idempotency cache under the idempotency key before the lock is
\* released, and the release is always attempted: the call reaches
\* releaseLock only by the step that sends its result to the cache (the
\* entry is set unless Redis refuses the command), it returns only by the
\* step that runs releaseLock, and no step of the call frees the lock before.
C26_CachedBeforeRelease ==
    [][\A p \in Calls :
         /\ pc'[p] = "releaseLock" /\ pc[p] # "releaseLock"
            => /\ pc[p] = "setCached"
               /\ result[p].status \in {"COMPLETED", "FAILED"}
               /\ result'[p] = result[p]
               /\ \/ cache' = [cache EXCEPT ![req[p].idempotencyKey] =
                                  {JsonStringify(result[p])}]
                  \/ redisFailed' /\ cache' = cache
         /\ AfterAcquire(p)
            => /\ AfterAcquire(p)' \/ pc'[p] = "releaseLock"
               /\ pc'[p] # pc[p] => lock' = lock
         /\ pc[p] = "releaseLock" /\ pc'[p] # "releaseLock"
            => /\ pc'[p] = "done"
               /\ \/ lock' = [lock EXCEPT ![LockKey(req[p])] =
                                 IF @ = p THEN NoLock ELSE @]
                  \/ redisFailed' /\ lock' = lock]_vars

\* one call on the success path and one on the failure path are both about
\* to release, each with its result in the cache under its key
C26_Witness ==
    \E p \in Calls : \E q \in Calls \ {p} :
        /\ pc[p] = "releaseLock" /\ pc[q] = "releaseLock"
        /\ result[p].status = "COMPLETED" /\ result[q].status = "FAILED"
        /\ cache[req[p].idempotencyKey] = {JsonStringify(result[p])}
        /\ cache[req[q].idempotencyKey] = {JsonStringify(result[q])}
        /\ req[p].idempotencyKey # req[q].idempotencyKey

\* a CONCURRENT_REQUEST outcome has status PENDING and leaves no
\* TransactionLog, and no cache entry holds one
ConflictLeavesNoTrace ==
    /\ \A p \in Calls :
         Returned(p) /\ result[p].error = "CONCURRENT_REQUEST"
         => /\ result[p].status = "PENDING"
            /\ ~result[p].success
            /\ transactionLog[p] = NoId
            /\ \A l \in txLogs : l.id # p
    /\ \A k \in Keys : \A cached \in cache[k] :
         JsonParse(cached).error # "CONCURRENT_REQUEST"

\* the call repeats a request answered CONCURRENT_REQUEST, was made after the
\* operation in flight had returned and the lock was free, and has returned;
\* no Redis command has failed
RetriedAfterConflict(p) ==
    /\ scenario = "conflict" /\ p > 2
    /\ Returned(p)
    /\ ~redisFailed

C28_LockEventuallyFree ==
    /\ \A k \in LockKeys : (lock[k] # NoLock) ~> (lock[k] = NoLock)
    /\ [][\A k \in LockKeys :
            lock[k] # NoLock /\ lock'[k] = NoLock
            => \/ pc[lock[k]] = "releaseLock" /\ pc'[lock[k]] = "done"
               \/ pc' = pc]_vars

\* the holder of a lock has crashed without releasing it, the key is free
\* again, and another caller on the same wallet pair is about to acquire it
C28_Witness ==
    \E p \in Calls : \E q \in Calls \ {p} :
        /\ pc[p] = "crashed"
        /\ lock[LockKey(req[p])] = NoLock
        /\ pc[q] = "acquireLock"
        /\ LockKey(req[q]) = LockKey(req[p])

\* the source or the destination wallet of the request is missing or inactive
BadWallet(request) ==
    \/ request.fromWalletId \notin Wallets
    \/ request.toWalletId \notin Wallets
    \/ ~wallets[request.fromWalletId].isActive
    \/ ~wallets[request.toWalletId].isActive

\* C29: a transfer whose source wallet or destination wallet is missing or
\* inactive ends with status FAILED (once it holds the coordination lock and
\* runs its transaction), changes the balance of neither wallet and commits
\* no ledger entry: no step of such a call changes a wallet or the ledger.
C29_BadWalletFailsAndWritesNothing ==
    /\ [](\A p \in Calls :
            ( /\ Returned(p)
              /\ validateTransferRequest(req[p]) = NoError
              /\ BadWallet(req[p])
              /\ ~result[p].isIdempotent
              /\ result[p].error # "CONCURRENT_REQUEST" )
            => /\ result[p].status = "FAILED"
               /\ ~result[p].success
               /\ \A e \in ledger : e.transactionLogId # p
               /\ \A l \in txLogs : l.id = p => l.status # "COMPLETED")
    /\ [][\A p \in Calls :
            ( /\ pc'[p] # pc[p]
              /\ validateTransferRequest(req'[p]) = NoError
              /\ BadWallet(req'[p]) )
            => wallets' = wallets /\ ledger' = ledger]_vars

\* a transfer to a missing wallet and a transfer from an inactive wallet have
\* both run their transaction and failed; the balances are the opening ones
C29_Witness ==
    \E p \in Calls : \E q \in Calls :
        /\ Executed(p) /\ req[p].toWalletId = MissingWallet
        /\ result[p].status = "FAILED"
        /\ Executed(q) /\ req[q].fromWalletId = "C"
        /\ result[q].status = "FAILED"
        /\ \A w \in Wallets : wallets[w].balance = OpeningBalance(w)

\* C30: for every amount accepted by validation, amounts with more than four
\* fractional digits included, the step that completes a transfer leaves the
\* sum of the stored balances of the source and the destination wallet
\* unchanged, and each of the two stored balances changes by exactly the
\* amount stored in the TransactionLog and in the ledger entries.
C30_StoredBalancesConserved ==
    [][\A p \in Calls :
         ( pc[p] = "execute" /\ pc'[p] = "setCached"
           /\ result'[p].status = "COMPLETED" )
         => LET from == req[p].fromWalletId
                to == req[p].toWalletId
            IN  /\ wallets'[from].balance + wallets'[to].balance
                     = wallets[from].balance + wallets[to].balance
                /\ \A l \in txLogs' :
                     l.id = transactionLog[p]
                     => /\ wallets[from].balance - wallets'[from].balance
                             = l.amount
                        /\ wallets'[to].balance - wallets[to].balance
                             = l.amount
                /\ \A e \in ledger' :
                     e.transactionLogId = transactionLog[p]
                     => /\ e.walletId = from
                           => wallets[from].balance - wallets'[from].balance
                                = e.amount
                        /\ e.walletId = to
                           => wallets'[to].balance - wallets[to].balance
                                = e.amount]_vars

\* C31: every CREDIT ledger entry written by applyAccruedInterest records as
\* balanceBefore the wallet's balance before this interest credit and
\* satisfies balanceAfter - balanceBefore = the entry's amount, also when
\* several accruals of the same wallet are applied in one call.
C31_InterestEntryBalances ==
    \A e \in ledger :
        (\E l \in txLogs : l.id = e.transactionLogId /\ l.type = "INTEREST")
        => /\ e.entryType = "CREDIT"
           /\ e.balanceAfter - e.balanceBefore = e.amount

\* C32: every committed TransactionLog, of type TRANSFER or INTEREST, has a
\* stored amount strictly greater than zero at four-fractional-digit
\* precision, including transfers of amounts below 0.00005 and interest
\* materialized for accruals on very small balances.
C32_StoredAmountsPositive ==
    \A l \in txLogs : l.type \in {"TRANSFER", "INTEREST"} => l.amount > 0

\* C33: when two accrueInterestForWallet calls for the same wallet and date
\* interleave (both look up the existing row before either has created one),
\* exactly one row is created and both calls return that row's values as a
\* structured result; neither call raises.
C33_InterleavedAccrualsBothReturnTheRow ==
    \A i, j \in Jobs :
        (/\ i # j
         /\ job[i].op = "accrue" /\ job[j].op = "accrue"
         /\ job[i].walletId = job[j].walletId /\ job[i].date = job[j].date
         /\ job[i].pc = "done" /\ job[j].pc = "done")
        => LET rows == {a \in accruals : /\ a.walletId = job[i].walletId
                                         /\ a.accrualDate = job[i].date.iso}
           IN  /\ Cardinality(rows) = 1
               /\ \A k \in {i, j} :
                    /\ job[k].result.returned = "result"
                    /\ \A a \in rows :
                         /\ job[k].result.interestAmount = a.interestAmount
                         /\ job[k].result.principalAmount = a.principalAmount

\* a step of an accrueInterestForWallet call j
AccrueStepOf(j) == job'[j] # job[j] /\ job'[j].op = "accrue"

\* C34: accrueInterestForWallet never changes a wallet balance and never
\* creates a TransactionLog or a ledger entry: for an active wallet with a
\* positive balance and no row for the date it creates one InterestAccrual
\* with isApplied false whose principal is the balance of the wallet the call
\* read, and for a missing or inactive wallet or a zero or negative balance it
\* creates nothing and returns no record.
C34_AccrueWritesOnlyItsAccrual ==
    [][\A j \in Jobs : AccrueStepOf(j) =>
        LET w == job[j].walletId
            earns == /\ w \in DOMAIN wallets
                     /\ wallets[w].isActive
                     /\ wallets[w].balance > 0
            created == accruals' \ accruals
        IN  /\ wallets' = wallets /\ txLogs' = txLogs /\ ledger' = ledger
            /\ accruals \subseteq accruals'
            /\ (job[j].pc = "fetchWallet" /\ ~earns)
                 => /\ created = {}
                    /\ job'[j].pc = "done"
                    /\ job'[j].result.returned = "null"
            /\ (job[j].pc = "create" /\ FindAccrual(w, job[j].date.iso) = {})
                 => Cardinality(created) = 1
            /\ \A a \in created :
                 /\ job[j].pc = "create"
                 /\ a.walletId = w /\ a.accrualDate = job[j].date.iso
                 /\ ~a.isApplied
                 /\ a.principalAmount = job[j].wallet.balance
                 /\ job[j].wallet.isActive /\ job[j].wallet.balance > 0
                 /\ job'[j].result.returned = "result"]_vars

\* C34 witness: one call has created an accrual for the funded active wallet,
\* another has returned no record for a wallet that is missing, inactive or
\* empty, and no TransactionLog or ledger entry exists
C34_Witness ==
    /\ txLogs = {} /\ ledger = {}
    /\ \E i \in Jobs : \E j \in Jobs \ {i} :
        /\ job[i].op = "accrue" /\ job[i].pc = "done"
        /\ job[i].result.returned = "result"
        /\ \E a \in accruals : a.id = AccrualId(i, "A") /\ ~a.isApplied
        /\ job[j].op = "accrue" /\ job[j].pc = "done"
        /\ job[j].walletId \in {"B", "C", MissingWallet}
        /\ job[j].result.returned = "null"

\* what a transfer call may write: the store, the cache and the locks
Written == <<wallets, txLogs, ledger, cache, lock, rowLock>>

\* C35: when the cache holds no entry for the idempotency key but a
\* TransactionLog with the key exists in the store, transfer returns a result
\* flagged as a replay whose success flag is true exactly when the stored
\* status is COMPLETED and whose transactionId and status are those of the
\* stored row, and it acquires no lock and writes nothing to the store or the
\* cache; a cache hit likewise returns the cached result with no mutation.
C35_ReplayReadsOnly ==
    [][\A p \in Calls : pc'[p] # pc[p] =>
        LET K == req[p].idempotencyKey IN
        /\ pc[p] \in {"idle", "getCached", "findExisting"}
             => UNCHANGED Written
        /\ (pc[p] = "findExisting" /\ FindByKey(K) # {})
             => /\ pc'[p] = "done"
                /\ result'[p].isIdempotent
                /\ \E l \in FindByKey(K) :
                     /\ result'[p].success = (l.status = "COMPLETED")
                     /\ result'[p].transactionId = l.id
                     /\ result'[p].status = l.status
        /\ (pc[p] = "getCached" /\ pc'[p] = "done")
             => \E cachedResult \in cache[K] :
                  result'[p] = [JsonParse(cachedResult)
                                  EXCEPT !.isIdempotent = TRUE]]_vars

\* C35 witness: one call executed the transfer, the other was answered from
\* its TransactionLog row after a cache miss (the replay built from the row
\* carries no balances), and one TransactionLog only exists
C35_Witness ==
    \E p \in Calls : \E q \in Calls \ {p} :
        /\ pc[p] = "done" /\ pc[q] = "done"
        /\ result[p].isIdempotent /\ result[p].success
        /\ result[p].fromBalance = NoBalance
        /\ result[p].transactionId = result[q].transactionId
        /\ Cardinality(txLogs) = 1

\* the committed ledger entries of one type of a wallet
EntriesOn(w, entryType) ==
    {e \in ledger : e.walletId = w /\ e.entryType = entryType}

\* C36: under any interleaving of transfers over overlapping wallet pairs
\* (A to B and A to C, which take different coordination locks) and interest
\* applications, with amounts of at most four fractional digits, the committed
\* balance of every wallet is its opening balance plus the amounts of its
\* committed CREDIT entries minus the amounts of its committed DEBIT entries:
\* no update is lost.
C36_NoUpdateLost ==
    \A w \in Wallets :
        wallets[w].balance = OpeningBalance(w)
                               + SumOfAmounts(EntriesOn(w, "CREDIT"))
                               - SumOfAmounts(EntriesOn(w, "DEBIT"))

\* C36 witness: the source wallet shared by the two transfers has been
\* debited by a transfer and credited with interest, the two transfers having
\* been in their transactions together
C36_Witness ==
    /\ EntriesOn("A", "DEBIT") # {}
    /\ EntriesOn("A", "CREDIT") # {}
    /\ \E p \in Calls : missedWith[p] # {}

\* C37: every committed LedgerEntry references a committed TransactionLog
\* whose status is COMPLETED; a transfer that ends FAILED, with a validation
\* error or with CONCURRENT_REQUEST leaves no ledger entry.
C37_LedgerOnlyOfCompletedLogs ==
    /\ \A e \in ledger :
         \E l \in txLogs : l.id = e.transactionLogId /\ l.status = "COMPLETED"
    /\ \A p \in Calls :
         (pc[p] = "done" /\ ~result[p].success /\ ~result[p].isIdempotent)
         => /\ result[p].status \in {"FAILED", "PENDING"}
            /\ \A e \in ledger :
                 /\ e.transactionLogId # transactionLog[p]
                 /\ e.transactionLogId # result[p].transactionId

\* C37 witness: the ledger holds the entries of a completed transfer and of an
\* interest credit, and another transfer has ended FAILED
C37_Witness ==
    /\ \E e \in ledger : \E l \in txLogs :
         l.id = e.transactionLogId /\ l.type = "INTEREST"
    /\ \E e \in ledger : \E l \in txLogs :
         l.id = e.transactionLogId /\ l.type = "TRANSFER"
    /\ \E p \in Calls : pc[p] = "done" /\ result[p].status = "FAILED"

\* C38: every transactionId returned in a transfer result, whether fresh or
\* replayed and whether success or failure, identifies a TransactionLog row
\* that exists in the store and can be fetched with getTransactionById.
C38_ReturnedIdsCanBeFetched ==
    \A p \in Calls :
        (pc[p] = "done" /\ result[p].transactionId # NoId)
        => getTransactionById(result[p].transactionId) # {}

\* the accruals an applyAccruedInterest call selected for a wallet
PendingOf(j, w) ==
    {job[j].pending[n] : n \in {m \in 1..Len(job[j].pending) :
                                  job[j].pending[m].walletId = w}}

\* C39: applyAccruedInterest credits a pending accrual to its wallet whether
\* or not the wallet is active at apply time: the wallet is read again inside
\* the transaction by its id only, and the only accruals skipped are those
\* whose wallet row no longer exists.
C39_AppliedWhetherActiveOrNot ==
    [][\A j \in Jobs :
        /\ (job[j].pc = "lockWallet" /\ job'[j].i # job[j].i)
             => job[j].pending[job[j].i].walletId \notin DOMAIN wallets
        /\ (job[j].pc = "commit" /\ job'[j].pc = "done")
             => \A w \in DOMAIN wallets :
                  /\ wallets'[w].isActive = wallets[w].isActive
                  /\ wallets'[w].balance =
                       wallets[w].balance + SumOfInterest(PendingOf(j, w))
                  /\ \A a \in PendingOf(j, w) :
                       \E b \in accruals' : b.id = a.id /\ b.isApplied]_vars

\* C39 witness: the accrual of the inactive wallet has been applied and its
\* interest is in the balance of the wallet, which is still inactive
C39_Witness ==
    /\ ~wallets["C"].isActive
    /\ wallets["C"].balance > 2000
    /\ \E a \in accruals : a.walletId = "C" /\ a.isApplied
    /\ \E e \in ledger : e.walletId = "C" /\ e.entryType = "CREDIT"

====
